---- MODULE Spec2Model ----
(***************************************************************************)
(* A model of asgi_webdav's authentication (auth.py) and response delivery *)
(* (response.py).                                                          *)
(*                                                                         *)
(* Representation.  A Python bytes or str value is a sequence of integers  *)
(* (byte values, resp. code points), so that lower(), base64, UTF-8 and    *)
(* the Digest parameter syntax are computed character by character.  The  *)
(* text a sequence stands for is given in a comment next to it.  None is   *)
(* the sequence <<-1>>, which is no text.  A Python dict is the sequence   *)
(* of its <<key, value>> pairs in insertion order.                         *)
(***************************************************************************)
EXTENDS Integers, Sequences, FiniteSets, TLC

VARIABLES
    user_mapping,             \* DAVAuth.user_mapping (class attribute)
    credential_user_mapping,  \* HTTPBasicAuth.credential_user_mapping (class attribute)
    config,                   \* the Config the process was started with
    digest_secret,            \* HTTPDigestAuth.secret
    digest_opaque,            \* HTTPDigestAuth.opaque
    pc,                       \* where the request in flight is
    request,                  \* the DAVRequest in flight
    auth,                     \* what pick_out_user returned (or that it raised)
    response,                 \* the DAVResponse being sent
    sender,                   \* locals of the running send coroutine
    files,                    \* open file descriptors: content and position
    sent,                     \* messages passed to request.send, in order
    call,                     \* a function applied on its own: its arguments
    result,                   \* and what it returned (None before the call)
    history,                  \* what an observer of the server has seen so far
    hide,                     \* the DAVHideFileInDir of the process
    tasks                     \* the calls of is_match_hide_file_in_dir in flight

vars == <<user_mapping, credential_user_mapping, config, digest_secret,
          digest_opaque, pc, request, auth, response, sender, files, sent,
          call, result, history, hide, tasks>>

----------------------------------------------------------------------------
(* Python values *)

None == <<-1>>

Min(a, b) == IF a < b THEN a ELSE b

\* s[:n]
Take(s, n) == SubSeq(s, 1, Min(n, Len(s)))

\* s[n:]
Drop(s, n) == SubSeq(s, n + 1, Len(s))

\* bytes.lower() / str.lower() on ASCII letters
LowerChar(c) == IF c \in 65..90 THEN c + 32 ELSE c

Lower(s) == [i \in 1..Len(s) |-> LowerChar(s[i])]

UpperChar(c) == IF c \in 97..122 THEN c - 32 ELSE c

Upper(s) == [i \in 1..Len(s) |-> UpperChar(s[i])]

IsPrefix(p, s) == Len(p) <= Len(s) /\ SubSeq(s, 1, Len(p)) = p

\* index of the first occurrence of character c in s, 0 when there is none
\* (searched by halves, the left half first)
RECURSIVE FindRange(_, _, _, _)
FindRange(s, c, lo, hi) ==
    IF lo > hi THEN 0
    ELSE IF lo = hi THEN (IF s[lo] = c THEN lo ELSE 0)
    ELSE LET left == FindRange(s, c, lo, (lo + hi) \div 2)
         IN  IF left # 0 THEN left
             ELSE FindRange(s, c, (lo + hi) \div 2 + 1, hi)

Find(s, c) == FindRange(s, c, 1, Len(s))

\* str.split(c): the pieces between the occurrences of c; "" gives [""]
RECURSIVE Split(_, _)
Split(s, c) ==
    LET i == Find(s, c)
    IN  IF i = 0 THEN <<s>>
        ELSE <<SubSeq(s, 1, i - 1)>> \o Split(Drop(s, i), c)

\* str.lstrip(chars), str.rstrip(chars), str.strip(chars)
RECURSIVE LStrip(_, _)
LStrip(s, chars) ==
    IF Len(s) > 0 /\ s[1] \in chars THEN LStrip(Tail(s), chars) ELSE s

RECURSIVE RStrip(_, _)
RStrip(s, chars) ==
    IF Len(s) > 0 /\ s[Len(s)] \in chars
    THEN RStrip(SubSeq(s, 1, Len(s) - 1), chars)
    ELSE s

Strip(s, chars) == RStrip(LStrip(s, chars), chars)

\* sep.join(parts)
RECURSIVE Join(_, _)
Join(sep, parts) ==
    IF Len(parts) = 0 THEN <<>>
    ELSE IF Len(parts) = 1 THEN parts[1]
    ELSE parts[1] \o sep \o Join(sep, Tail(parts))

\* str(n)
RECURSIVE NatToStr(_)
NatToStr(n) ==
    IF n < 10 THEN <<48 + n>>
    ELSE NatToStr(n \div 10) \o <<48 + (n % 10)>>

IntToStr(n) == IF n < 0 THEN <<45>> \o NatToStr(0 - n) ELSE NatToStr(n)

\* None where the code holds an int | None: a number that is no length, offset
\* or count here, nor the difference of two of them (a length minus a range
\* start is an int, also when it is negative)
NoneInt == 0 - 1000000000


\* dict: d.get(k), k in d, d[k] = v (a new key goes last, an old key keeps its place)
DictHas(d, k) == \E i \in 1..Len(d) : d[i][1] = k

DictGetOr(d, k, default) ==
    IF DictHas(d, k)
    THEN d[CHOOSE i \in 1..Len(d) : d[i][1] = k][2]
    ELSE default

DictGet(d, k) == DictGetOr(d, k, None)

DictSet(d, k, v) ==
    IF DictHas(d, k)
    THEN [i \in 1..Len(d) |-> IF d[i][1] = k THEN <<k, v>> ELSE d[i]]
    ELSE Append(d, <<k, v>>)

DictPop(d, k) == SelectSeq(d, LAMBDA kv : kv[1] # k)

DictKeys(d) == {d[i][1] : i \in 1..Len(d)}

\* dict.update(other)
RECURSIVE DictUpdate(_, _)
DictUpdate(d, other) ==
    IF Len(other) = 0 THEN d
    ELSE DictUpdate(DictSet(d, other[1][1], other[1][2]), Tail(other))

----------------------------------------------------------------------------
(* Encodings used by auth.py *)

IsContinuation(b) == b \in 128..191

\* every element is below 128: ASCII bytes are ASCII characters and the other
\* way round, one for one
IsAscii(s) == \A i \in 1..Len(s) : s[i] < 128

\* One step of the UTF-8 decoder at position i of bytes b: how many bytes the
\* character takes (0: the bytes are not UTF-8 there) and its code point.
Utf8Step(b, i) ==
    LET b1 == b[i]
        has(n) == i + n - 1 <= Len(b)
    IN  IF b1 < 128 THEN [n |-> 1, cp |-> b1]
        ELSE IF b1 \in 194..223 /\ has(2) /\ IsContinuation(b[i + 1])
        THEN [n |-> 2, cp |-> (b1 - 192) * 64 + (b[i + 1] - 128)]
        ELSE IF b1 \in 224..239 /\ has(3)
                /\ b[i + 1] \in (IF b1 = 224 THEN 160..191
                                 ELSE IF b1 = 237 THEN 128..159 ELSE 128..191)
                /\ IsContinuation(b[i + 2])
        THEN [n |-> 3, cp |-> (b1 - 224) * 4096 + (b[i + 1] - 128) * 64
                                + (b[i + 2] - 128)]
        ELSE IF b1 \in 240..244 /\ has(4)
                /\ b[i + 1] \in (IF b1 = 240 THEN 144..191
                                 ELSE IF b1 = 244 THEN 128..143 ELSE 128..191)
                /\ IsContinuation(b[i + 2]) /\ IsContinuation(b[i + 3])
        THEN [n |-> 4, cp |-> (b1 - 240) * 262144 + (b[i + 1] - 128) * 4096
                                + (b[i + 2] - 128) * 64 + (b[i + 3] - 128)]
        ELSE [n |-> 0, cp |-> 0]

\* bytes.decode("utf-8") raises UnicodeDecodeError unless Utf8Valid: the
\* bytes begin with a character, and every character is well formed and is
\* followed by the end or by the first byte of another character
Utf8Valid(b) ==
    \/ IsAscii(b)
    \/ /\ Len(b) > 0 => ~IsContinuation(b[1])
       /\ \A i \in 1..Len(b) :
              ~IsContinuation(b[i]) =>
                  LET n == Utf8Step(b, i).n
                  IN  /\ n > 0
                      /\ i + n <= Len(b) => ~IsContinuation(b[i + n])

\* the first byte of the character that byte i of b belongs to
CharStart(b, i) ==
    CHOOSE j \in (IF i > 3 THEN i - 3 ELSE 1)..i :
        ~IsContinuation(b[j]) /\ \A k \in (j + 1)..i : IsContinuation(b[k])

\* the characters of bytes lo..hi of b, for b that is Utf8Valid, lo the first
\* byte of a character and hi the last byte of one (by halves)
RECURSIVE Utf8DecodeRange(_, _, _)
Utf8DecodeRange(b, lo, hi) ==
    IF lo > hi THEN <<>>
    ELSE LET st == Utf8Step(b, lo)
             mid == CharStart(b, (lo + hi + 1) \div 2)
             cut == IF mid = lo THEN lo + st.n ELSE mid
         IN  IF lo + st.n > hi THEN <<st.cp>>
             ELSE Utf8DecodeRange(b, lo, cut - 1)
                  \o Utf8DecodeRange(b, cut, hi)

Utf8Decode(b) == IF IsAscii(b) THEN b ELSE Utf8DecodeRange(b, 1, Len(b))

\* str.encode("utf-8")
Utf8EncodeChar(cp) ==
    IF cp < 128 THEN <<cp>>
    ELSE IF cp < 2048 THEN <<192 + (cp \div 64), 128 + (cp % 64)>>
    ELSE IF cp < 65536
    THEN <<224 + (cp \div 4096), 128 + ((cp \div 64) % 64), 128 + (cp % 64)>>
    ELSE <<240 + (cp \div 262144), 128 + ((cp \div 4096) % 64),
           128 + ((cp \div 64) % 64), 128 + (cp % 64)>>

\* the bytes of characters lo..hi of s (by halves)
RECURSIVE Utf8EncodeRange(_, _, _)
Utf8EncodeRange(s, lo, hi) ==
    IF lo > hi THEN <<>>
    ELSE IF lo = hi THEN Utf8EncodeChar(s[lo])
    ELSE Utf8EncodeRange(s, lo, (lo + hi) \div 2)
         \o Utf8EncodeRange(s, (lo + hi) \div 2 + 1, hi)

Utf8Encode(s) == IF IsAscii(s) THEN s ELSE Utf8EncodeRange(s, 1, Len(s))

\* the base64 alphabet: A-Z a-z 0-9 + /
B64Char(i) ==
    IF i < 26 THEN 65 + i
    ELSE IF i < 52 THEN 97 + (i - 26)
    ELSE IF i < 62 THEN 48 + (i - 52)
    ELSE IF i = 62 THEN 43
    ELSE 47

\* base64.b64encode: three bytes give four characters, the tail is padded with "="
RECURSIVE b64encode(_)
b64encode(b) ==
    IF Len(b) = 0 THEN <<>>
    ELSE IF Len(b) = 1
    THEN <<B64Char(b[1] \div 4), B64Char((b[1] % 4) * 16), 61, 61>>
    ELSE IF Len(b) = 2
    THEN <<B64Char(b[1] \div 4),
           B64Char(((b[1] % 4) * 16) + (b[2] \div 16)),
           B64Char((b[2] % 16) * 4), 61>>
    ELSE <<B64Char(b[1] \div 4),
           B64Char(((b[1] % 4) * 16) + (b[2] \div 16)),
           B64Char(((b[2] % 16) * 4) + (b[3] \div 64)),
           B64Char(b[3] % 64)>> \o b64encode(Drop(b, 3))

\* hashlib.md5(b).hexdigest().  MD5 is taken to be free of collisions: the digest
\* of b is written as b itself between two marker characters (SOH, STX) that no
\* input of the model contains, so two digests are equal exactly when the
\* digested bytes are.
md5_hexdigest(b) == <<1>> \o b \o <<2>>

----------------------------------------------------------------------------
(* auth.py *)

\* DAVAuth.realm: "ASGI-WebDAV"
realm == <<65, 83, 71, 73, 45, 87, 101, 98, 68, 65, 86>>

\* the result of pick_out_user when no user is returned
NoUser == [username |-> None, password |-> None]

\* a DAVUser (permissions and admin play no part in authentication)
DAVUser(username, password) == [username |-> username, password |-> password]

\* b64encode(f"{user.username}:{user.password}".encode("utf-8"))
basic_credential(user) ==
    b64encode(Utf8Encode(user.username \o <<58>> \o user.password))

\* HTTPBasicAuth.__init__: every user of user_mapping, in its order, is stored in
\* the class-level credential map under its credential string
RECURSIVE HTTPBasicAuth_init(_, _)
HTTPBasicAuth_init(cmap, umap) ==
    IF Len(umap) = 0 THEN cmap
    ELSE HTTPBasicAuth_init(
             DictSet(cmap, basic_credential(umap[1][2]), umap[1][2]),
             Tail(umap))

\* the loop of DAVAuth.__init__ over config.account_mapping
RECURSIVE RegisterUsers(_, _)
RegisterUsers(umap, accounts) ==
    IF Len(accounts) = 0 THEN umap
    ELSE RegisterUsers(
             DictSet(umap, accounts[1].username,
                     DAVUser(accounts[1].username, accounts[1].password)),
             Tail(accounts))

\* DAVAuth.__init__, given the class-level maps as they are before the call
DAVAuth_init(umap, cmap, cfg) ==
    LET users == RegisterUsers(umap, cfg.account_mapping)
    IN  [user_mapping |-> users,
         credential_user_mapping |-> HTTPBasicAuth_init(cmap, users)]

\* is_credential without .lower(): only "Basic " is taken for the scheme
HTTPBasicAuth_is_credential_exact(authorization_header) ==
    Take(authorization_header, 6) = <<66, 97, 115, 105, 99, 32>>

\* HTTPBasicAuth.is_credential: authorization_header[:6].lower() == b"basic "
HTTPBasicAuth_is_credential(authorization_header) ==
    Lower(Take(authorization_header, 6)) = <<98, 97, 115, 105, 99, 32>>

\* HTTPBasicAuth.verify_user
HTTPBasicAuth_verify_user(authorization_header) ==
    DictGetOr(credential_user_mapping, Drop(authorization_header, 6), NoUser)

\* HTTPBasicAuth.make_auth_challenge_string: Basic realm="<realm>"
HTTPBasicAuth_make_auth_challenge_string ==
    Utf8Encode(<<66, 97, 115, 105, 99, 32, 114, 101, 97, 108, 109, 61, 34>>
               \o realm \o <<34>>)

\* the keys of a Digest Authorization header
k_username == <<117, 115, 101, 114, 110, 97, 109, 101>>
k_realm == <<114, 101, 97, 108, 109>>
k_nonce == <<110, 111, 110, 99, 101>>
k_uri == <<117, 114, 105>>
k_response == <<114, 101, 115, 112, 111, 110, 115, 101>>
k_algorithm == <<97, 108, 103, 111, 114, 105, 116, 104, 109>>
k_opaque == <<111, 112, 97, 113, 117, 101>>
k_qop == <<113, 111, 112>>
k_nc == <<110, 99>>
k_cnonce == <<99, 110, 111, 110, 99, 101>>
k_rspauth == <<114, 115, 112, 97, 117, 116, 104>>
k_stale == <<115, 116, 97, 108, 101>>

\* "auth", "MD5", "false"
v_auth == <<97, 117, 116, 104>>
v_MD5 == <<77, 68, 53>>
v_false == <<102, 97, 108, 115, 101>>

\* the required keys with "opaque" forgotten
DIGEST_AUTHORIZATION_PARAMS_nine ==
    {k_username, k_realm, k_nonce, k_uri, k_response,
     k_algorithm, k_qop, k_nc, k_cnonce}

DIGEST_AUTHORIZATION_PARAMS ==
    {k_username, k_realm, k_nonce, k_uri, k_response,
     k_algorithm, k_opaque, k_qop, k_nc, k_cnonce}

\* HTTPDigestAuth.is_credential: authorization_header[:7].lower() == b"digest "
HTTPDigestAuth_is_credential(authorization_header) ==
    Lower(Take(authorization_header, 7)) = <<100, 105, 103, 101, 115, 116, 32>>

\* the body of the loop of authorization_str_parser_to_data: a fragment with no
\* "=" raises ValueError, which is caught and logged, and leaves data as it is
ParseFragment(data, value) ==
    LET i == Find(value, 61)
    IN  IF i = 0 THEN data
        ELSE LET k == Strip(SubSeq(value, 1, i - 1), {32})
                 v == Strip(Strip(Drop(value, i), {32, 34}), {39})
             IN  DictSet(data, k, v)

RECURSIVE ParseFragments(_, _)
ParseFragments(data, values) ==
    IF Len(values) = 0 THEN data
    ELSE ParseFragments(ParseFragment(data, values[1]), Tail(values))

\* HTTPDigestAuth.authorization_str_parser_to_data
authorization_str_parser_to_data(authorization) ==
    ParseFragments(<<>>, Split(authorization, 44))

\* HTTPDigestAuth.authorization_string_build_from_data: k="v" joined by ", "
authorization_string_build_from_data(data) ==
    Join(<<44, 32>>,
         [i \in 1..Len(data) |-> data[i][1] \o <<61, 34>> \o data[i][2] \o <<34>>])

\* what ":".join(data) raises when an element of data is None
TypeError == <<-2>>

\* HTTPDigestAuth.build_md5_digest
build_md5_digest(data) ==
    IF \E i \in 1..Len(data) : data[i] = None THEN TypeError
    ELSE md5_hexdigest(Utf8Encode(Join(<<58>>, data)))

\* HTTPDigestAuth.build_ha1_ha2_digest
build_ha1_ha2_digest(username, password, method, uri) ==
    [ha1 |-> build_md5_digest(<<username, realm, password>>),
     ha2 |-> build_md5_digest(<<method, uri>>)]

\* build_request_digest taking the long form whenever the header has a qop
build_request_digest_any_qop(method, user, digest_auth_data) ==
    LET h == build_ha1_ha2_digest(user.username, user.password, method,
                                  DictGet(digest_auth_data, k_uri))
    IN  IF TypeError \in {h.ha1, h.ha2} THEN TypeError
        ELSE IF DictHas(digest_auth_data, k_qop)
        THEN build_md5_digest(<<h.ha1,
                                DictGet(digest_auth_data, k_nonce),
                                DictGet(digest_auth_data, k_nc),
                                DictGet(digest_auth_data, k_cnonce),
                                DictGet(digest_auth_data, k_qop),
                                h.ha2>>)
        ELSE build_md5_digest(<<h.ha1,
                                DictGet(digest_auth_data, k_nonce),
                                h.ha2>>)

\* HTTPDigestAuth.build_request_digest
build_request_digest(method, user, digest_auth_data) ==
    LET h == build_ha1_ha2_digest(user.username, user.password, method,
                                  DictGet(digest_auth_data, k_uri))
    IN  IF TypeError \in {h.ha1, h.ha2} THEN TypeError
        ELSE IF DictGet(digest_auth_data, k_qop) = v_auth
        THEN build_md5_digest(<<h.ha1,
                                DictGet(digest_auth_data, k_nonce),
                                DictGet(digest_auth_data, k_nc),
                                DictGet(digest_auth_data, k_cnonce),
                                DictGet(digest_auth_data, k_qop),
                                h.ha2>>)
        ELSE build_md5_digest(<<h.ha1,
                                DictGet(digest_auth_data, k_nonce),
                                h.ha2>>)

\* the dict literal of make_response_authentication_info_string, in its order
ResponseAuthenticationInfoData(rspauth, digest_auth_data) ==
    <<<<k_rspauth, rspauth>>,
      <<k_qop, DictGet(digest_auth_data, k_qop)>>,
      <<k_cnonce, DictGet(digest_auth_data, k_cnonce)>>,
      <<k_nc, DictGet(digest_auth_data, k_nc)>>>>

\* make_response_authentication_info_string with rspauth in the short form
make_response_authentication_info_string_short(method, user, digest_auth_data) ==
    LET h == build_ha1_ha2_digest(user.username, user.password, method,
                                  DictGet(digest_auth_data, k_uri))
        rspauth == build_md5_digest(<<h.ha1,
                                      DictGet(digest_auth_data, k_nonce),
                                      h.ha2>>)
    IN  IF TypeError \in {h.ha1, h.ha2, rspauth} THEN TypeError
        ELSE Utf8Encode(authorization_string_build_from_data(
                 <<<<k_rspauth, rspauth>>,
                   <<k_qop, DictGet(digest_auth_data, k_qop)>>,
                   <<k_cnonce, DictGet(digest_auth_data, k_cnonce)>>,
                   <<k_nc, DictGet(digest_auth_data, k_nc)>>>>))

\* HTTPDigestAuth.make_response_authentication_info_string
make_response_authentication_info_string(method, user, digest_auth_data) ==
    LET h == build_ha1_ha2_digest(user.username, user.password, method,
                                  DictGet(digest_auth_data, k_uri))
        rspauth == build_md5_digest(<<h.ha1,
                                      DictGet(digest_auth_data, k_nonce),
                                      DictGet(digest_auth_data, k_nc),
                                      DictGet(digest_auth_data, k_cnonce),
                                      DictGet(digest_auth_data, k_qop),
                                      h.ha2>>)
    IN  IF TypeError \in {h.ha1, h.ha2, rspauth} THEN TypeError
        ELSE Utf8Encode(authorization_string_build_from_data(
                 ResponseAuthenticationInfoData(rspauth, digest_auth_data)))

\* HTTPDigestAuth.nonce: md5(f"{uuid4().hex}{self.secret}"), uuid the random part
nonce(uuid) == md5_hexdigest(Utf8Encode(uuid \o digest_secret))

\* HTTPDigestAuth.make_auth_challenge_string
HTTPDigestAuth_make_auth_challenge_string(uuid) ==
    Utf8Encode(<<68, 105, 103, 101, 115, 116, 32>>
               \o authorization_string_build_from_data(
                      <<<<k_realm, realm>>,
                        <<k_qop, v_auth>>,
                        <<k_nonce, nonce(uuid)>>,
                        <<k_opaque, digest_opaque>>,
                        <<k_algorithm, v_MD5>>,
                        <<k_stale, v_false>>>>))

\* the reasons pick_out_user gives
\* "miss header: authorization"
reason_miss_header ==
    <<109, 105, 115, 115, 32, 104, 101, 97, 100, 101, 114, 58, 32, 97, 117,
      116, 104, 111, 114, 105, 122, 97, 116, 105, 111, 110>>
\* "no permission"
reason_no_permission ==
    <<110, 111, 32, 112, 101, 114, 109, 105, 115, 115, 105, 111, 110>>
\* "Unknown authentication method"
reason_unknown_method ==
    <<85, 110, 107, 110, 111, 119, 110, 32, 97, 117, 116, 104, 101, 110, 116,
      105, 99, 97, 116, 105, 111, 110, 32, 109, 101, 116, 104, 111, 100>>

\* b"authorization", the key of request.headers
h_authorization ==
    <<97, 117, 116, 104, 111, 114, 105, 122, 97, 116, 105, 111, 110>>

\* "Basic", "Digest": the values of request.authorization_method
m_Basic == <<66, 97, 115, 105, 99>>
m_Digest == <<68, 105, 103, 101, 115, 116>>

\* What a call of pick_out_user leaves behind: whether it raised, the pair it
\* returned, and the request attributes it assigned.  expected_request_digest
\* is the local of that name (None when the call did not compute it).
PickResult(raised, user, reason, method, info, expected) ==
    [raised |-> raised, user |-> user, reason |-> reason,
     authorization_method |-> method, authorization_info |-> info,
     expected_request_digest |-> expected]

\* the Digest branch with a reason of its own for a username that is not in
\* the user map
pick_out_user_digest_tells(req, authorization) ==
    LET digest_auth_data == authorization_str_parser_to_data(authorization)
        user == DictGetOr(user_mapping, DictGet(digest_auth_data, k_username),
                          NoUser)
        expected_request_digest ==
            build_request_digest(req.method, user, digest_auth_data)
    IN  IF DIGEST_AUTHORIZATION_PARAMS \ DictKeys(digest_auth_data) # {}
        THEN PickResult(FALSE, NoUser, reason_no_permission, m_Digest,
                        req.authorization_info, None)
        ELSE IF user = NoUser
        THEN PickResult(FALSE, NoUser, reason_unknown_method, m_Digest,
                        req.authorization_info, None)
        ELSE IF expected_request_digest # DictGet(digest_auth_data, k_response)
        THEN PickResult(FALSE, NoUser, reason_no_permission, m_Digest,
                        req.authorization_info, expected_request_digest)
        ELSE PickResult(FALSE, user, <<>>, m_Digest,
                        make_response_authentication_info_string(
                            req.method, user, digest_auth_data),
                        expected_request_digest)

\* the Digest branch of a server that keeps the nonces it has issued and accepts
\* a header only when its nonce is one of them
pick_out_user_digest_issued_only(req, authorization) ==
    LET digest_auth_data == authorization_str_parser_to_data(authorization)
        user == DictGetOr(user_mapping, DictGet(digest_auth_data, k_username),
                          NoUser)
        expected_request_digest ==
            build_request_digest(req.method, user, digest_auth_data)
        request_digest == DictGet(digest_auth_data, k_response)
    IN  IF DIGEST_AUTHORIZATION_PARAMS \ DictKeys(digest_auth_data) # {}
        THEN PickResult(FALSE, NoUser, reason_no_permission, m_Digest,
                        req.authorization_info, None)
        ELSE IF user = NoUser
        THEN PickResult(FALSE, NoUser, reason_no_permission, m_Digest,
                        req.authorization_info, None)
        ELSE IF \/ expected_request_digest # request_digest
                \/ DictGet(digest_auth_data, k_nonce) \notin history.issued
        THEN PickResult(FALSE, NoUser, reason_no_permission, m_Digest,
                        req.authorization_info, expected_request_digest)
        ELSE PickResult(FALSE, user, <<>>, m_Digest,
                        make_response_authentication_info_string(
                            req.method, user, digest_auth_data),
                        expected_request_digest)

\* the Digest branch of DAVAuth.pick_out_user, after the header is decoded
pick_out_user_digest(req, authorization) ==
    LET digest_auth_data == authorization_str_parser_to_data(authorization)
        user == DictGetOr(user_mapping, DictGet(digest_auth_data, k_username),
                          NoUser)
        expected_request_digest ==
            build_request_digest(req.method, user, digest_auth_data)
        request_digest == DictGet(digest_auth_data, k_response)
    IN  IF DIGEST_AUTHORIZATION_PARAMS \ DictKeys(digest_auth_data) # {}
        THEN PickResult(FALSE, NoUser, reason_no_permission, m_Digest,
                        req.authorization_info, None)
        ELSE IF user = NoUser
        THEN PickResult(FALSE, NoUser, reason_no_permission, m_Digest,
                        req.authorization_info, None)
        ELSE IF expected_request_digest # request_digest
        THEN PickResult(FALSE, NoUser, reason_no_permission, m_Digest,
                        req.authorization_info, expected_request_digest)
        ELSE PickResult(FALSE, user, <<>>, m_Digest,
                        make_response_authentication_info_string(
                            req.method, user, digest_auth_data),
                        expected_request_digest)

\* DAVAuth.pick_out_user
pick_out_user(req) ==
    LET authorization_header == DictGet(req.headers, h_authorization)
    IN  IF authorization_header = None
        THEN PickResult(FALSE, NoUser, reason_miss_header,
                        req.authorization_method, req.authorization_info, None)
        ELSE IF HTTPBasicAuth_is_credential(authorization_header)
        THEN LET user == HTTPBasicAuth_verify_user(authorization_header)
             IN  IF user = NoUser
                 THEN PickResult(FALSE, NoUser, reason_no_permission, m_Basic,
                                 req.authorization_info, None)
                 ELSE PickResult(FALSE, user, <<>>, m_Basic,
                                 req.authorization_info, None)
        ELSE IF HTTPDigestAuth_is_credential(authorization_header)
        THEN IF ~Utf8Valid(Drop(authorization_header, 7))
             \* authorization_header[7:].decode("utf-8") raises UnicodeDecodeError
             THEN PickResult(TRUE, NoUser, <<>>, m_Digest,
                             req.authorization_info, None)
             ELSE pick_out_user_digest(
                      req, Utf8Decode(Drop(authorization_header, 7)))
        ELSE PickResult(FALSE, NoUser, reason_unknown_method,
                        req.authorization_method, req.authorization_info, None)

\* DAVAuth._match_user_agent is re.match(rule, user_agent).  The rules of the
\* model are alternations of literal prefixes, each with an optional leading
\* "^": rule matches s when one of its alternatives is a prefix of s (the
\* empty rule matches every s).
re_match(rule, s) ==
    \E alt \in {Split(rule, 124)[i] : i \in 1..Len(Split(rule, 124))} :
        IsPrefix(IF Len(alt) > 0 /\ alt[1] = 94 THEN Tail(alt) ELSE alt, s)

_match_user_agent(rule, user_agent) == re_match(rule, user_agent)

----------------------------------------------------------------------------
(* response.py *)

\* Stand-ins for two constants response.py imports from asgi_webdav.constants
\* (lines 16 and 19), scaled down so that contents on both sides of each are
\* within reach: DEFAULT_COMPRESSION_CONTENT_MINIMUM_LENGTH and
\* RESPONSE_DATA_BLOCK_SIZE.
MinimumLength == 6
BlockSize == 64

\* DEFAULT_COMPRESSION_CONTENT_TYPE_RULE (asgi_webdav.constants):
\* "^application/xml|^application/json|^text/"
DEFAULT_COMPRESSION_CONTENT_TYPE_RULE ==
    <<94, 97, 112, 112, 108, 105, 99, 97, 116, 105, 111, 110, 47, 120, 109,
      108, 124, 94, 97, 112, 112, 108, 105, 99, 97, 116, 105, 111, 110, 47,
      106, 115, 111, 110, 124, 94, 116, 101, 120, 116, 47>>

\* header names and values
h_Content_Type == <<67, 111, 110, 116, 101, 110, 116, 45, 84, 121, 112, 101>>
h_Content_Length ==
    <<67, 111, 110, 116, 101, 110, 116, 45, 76, 101, 110, 103, 116, 104>>
h_Content_Encoding ==
    <<67, 111, 110, 116, 101, 110, 116, 45, 69, 110, 99, 111, 100, 105, 110, 103>>
h_Content_Range ==
    <<67, 111, 110, 116, 101, 110, 116, 45, 82, 97, 110, 103, 101>>
h_Authentication_Info ==
    <<65, 117, 116, 104, 101, 110, 116, 105, 99, 97, 116, 105, 111, 110, 45,
      73, 110, 102, 111>>
h_WWW_Authenticate ==
    <<87, 87, 87, 45, 65, 117, 116, 104, 101, 110, 116, 105, 99, 97, 116, 101>>
\* "text/html", "application/xml", "gzip", "br"
v_text_html == <<116, 101, 120, 116, 47, 104, 116, 109, 108>>
v_application_xml ==
    <<97, 112, 112, 108, 105, 99, 97, 116, 105, 111, 110, 47, 120, 109, 108>>
v_gzip == <<103, 122, 105, 112>>
v_br == <<98, 114>>

\* helpers.get_data_generator_from_content(value): the pairs the generator
\* yields.  Blocks of BlockSize bytes, each with more_body true, then the
\* shorter (possibly empty) rest with more_body false.
RECURSIVE get_data_generator_from_content(_)
get_data_generator_from_content(value) ==
    IF Len(value) >= BlockSize
    THEN <<<<Take(value, BlockSize), TRUE>>>>
         \o get_data_generator_from_content(Drop(value, BlockSize))
    ELSE <<<<value, FALSE>>>>

\* The three kinds of value a content can be given as.
BytesContent(value) == [kind |-> "bytes", chunks |-> <<>>, value |-> value,
                        file |-> NoneInt, offset |-> NoneInt, count |-> NoneInt]
GeneratorContent(chunks) ==
    [kind |-> "generator", chunks |-> chunks, value |-> <<>>,
     file |-> NoneInt, offset |-> NoneInt, count |-> NoneInt]
DAVZeroCopySendData(file, offset, count) ==
    [kind |-> "zerocopy", chunks |-> <<>>, value |-> <<>>,
     file |-> file, offset |-> offset, count |-> count]

\* DAVResponse.set_content: what _content and content_length become
set_content(value) ==
    IF value.kind = "bytes"
    THEN [_content |-> GeneratorContent(
                           get_data_generator_from_content(value.value)),
          content_length |-> Len(value.value)]
    ELSE [_content |-> value, content_length |-> NoneInt]

\* the range written with its last byte: "bytes {}-{}/{}" with length - 1
ContentRangeValue_last_byte(start, length) ==
    Utf8Encode(<<98, 121, 116, 101, 115, 32>> \o IntToStr(start) \o <<45>>
               \o IntToStr(length - 1) \o <<47>> \o IntToStr(length))

\* "bytes {}-{}/{}".format(start, length, length)
ContentRangeValue(start, length) ==
    Utf8Encode(<<98, 121, 116, 101, 115, 32>> \o IntToStr(start) \o <<45>>
               \o IntToStr(length) \o <<47>> \o IntToStr(length))

\* DAVResponse.__init__
DAVResponse_init(status, headers, response_type, content, content_length, content_range_start) ==
    LET typed == IF response_type = "HTML"
                 THEN <<<<h_Content_Type, v_text_html>>>>
                 ELSE IF response_type = "XML"
                 THEN <<<<h_Content_Type, v_application_xml>>>>
                 ELSE <<>>
        extended == DictUpdate(typed, headers)
        set == set_content(content)
        ranged == content_length # NoneInt /\ content_range_start # NoneInt
    IN  [status |-> status,
         headers |-> IF ranged
                     THEN DictSet(extended, h_Content_Range,
                                  ContentRangeValue(content_range_start,
                                                    content_length))
                     ELSE extended,
         _content |-> set._content,
         content_length |-> IF ranged
                            THEN content_length - content_range_start
                            ELSE IF content_length # NoneInt
                            THEN content_length
                            ELSE set.content_length,
         content_range |-> ranged,
         content_range_start |-> IF ranged THEN content_range_start
                                 ELSE NoneInt,
         compression_method |-> "UNSET"]

\* can_be_compressed with the built-in rule alone
can_be_compressed_builtin_only(content_type_from_header, content_type_user_rule) ==
    re_match(DEFAULT_COMPRESSION_CONTENT_TYPE_RULE, content_type_from_header)

\* DAVResponse.can_be_compressed
can_be_compressed(content_type_from_header, content_type_user_rule) ==
    \/ re_match(DEFAULT_COMPRESSION_CONTENT_TYPE_RULE, content_type_from_header)
    \/ /\ content_type_user_rule # <<>>
       /\ re_match(content_type_user_rule, content_type_from_header)

\* MESSAGE_401_TEMPLATE.format(message).encode("utf-8")
MESSAGE_401(message) ==
    Utf8Encode(
    <<60, 33, 68, 79, 67, 84, 89, 80, 69, 32, 104, 116, 109, 108, 62, 10,
      60, 104, 116, 109, 108, 62, 10, 32, 32, 60, 104, 101, 97, 100, 62, 10,
      32, 32, 32, 32, 60, 109, 101, 116, 97, 32, 99, 104, 97, 114, 115, 101,
      116, 61, 34, 85, 84, 70, 45, 56, 34, 32, 47, 62, 10, 32, 32, 32, 32,
      60, 116, 105, 116, 108, 101, 62, 69, 114, 114, 111, 114, 60, 47, 116,
      105, 116, 108, 101, 62, 10, 32, 32, 60, 47, 104, 101, 97, 100, 62, 10,
      32, 32, 60, 98, 111, 100, 121, 62, 10, 32, 32, 32, 32, 60, 104, 49,
      62, 52, 48, 49, 32, 85, 110, 97, 117, 116, 104, 111, 114, 105, 122,
      101, 100, 46, 32>>
    \o message \o
    <<60, 47, 104, 49, 62, 10, 32, 32, 60, 47, 98, 111, 100, 121, 62, 10,
      60, 47, 104, 116, 109, 108, 62>>)

\* the choice of challenge with enable_rule consulted in both branches
enable_digest_one_rule(cfg, user_agent) ==
    IF cfg.http_digest_auth.enable
    THEN ~re_match(cfg.http_digest_auth.enable_rule, user_agent)
    ELSE re_match(cfg.http_digest_auth.enable_rule, user_agent)

\* the choice of challenge in DAVAuth.create_response_401
enable_digest(cfg, user_agent) ==
    IF cfg.http_digest_auth.enable
    THEN ~_match_user_agent(cfg.http_digest_auth.disable_rule, user_agent)
    ELSE _match_user_agent(cfg.http_digest_auth.enable_rule, user_agent)

\* DAVAuth.create_response_401; uuid is the random part of the nonce
create_response_401(req, message, uuid) ==
    DAVResponse_init(
        401,
        <<<<h_WWW_Authenticate,
            IF enable_digest(config, req.client_user_agent)
            THEN HTTPDigestAuth_make_auth_challenge_string(uuid)
            ELSE HTTPBasicAuth_make_auth_challenge_string>>>>,
        "HTML", BytesContent(MESSAGE_401(message)), NoneInt, NoneInt)

\* a message passed to request.send; a key the message does not have is
\* written None / NoneInt / <<>>
Message(type, status, headers, body, more_body, file, offset, count) ==
    [type |-> type, status |-> status, headers |-> headers, body |-> body,
     more_body |-> more_body, file |-> file, offset |-> offset, count |-> count]

\* {"type": "http.response.start", "status": ..., "headers": list(headers.items())}
StartMessage(resp) ==
    Message("http.response.start", resp.status, resp.headers, <<>>, FALSE,
            NoneInt, NoneInt, NoneInt)

\* {"type": "http.response.body", "body": ..., "more_body": ...}
BodyMessage(body, more_body) ==
    Message("http.response.body", 0, <<>>, body, more_body,
            NoneInt, NoneInt, NoneInt)

\* sendfile that always gives offset and count, 0 for an offset that is None
ZeroCopySendMessage_all_keys(file, offset, count, more_body) ==
    Message("http.response.zerocopysend", 0, <<>>, <<>>, more_body,
            file, IF offset = NoneInt THEN 0 ELSE offset, count)

\* the message built by sendfile (create_send_or_zerocopy); offset and count
\* are keys of it only when they are not None
ZeroCopySendMessage(file, offset, count, more_body) ==
    Message("http.response.zerocopysend", 0, <<>>, <<>>, more_body,
            file, offset, count)

\* gzip.GzipFile(mode="wb", compresslevel=level, fileobj=buffer) writes the
\* member header into the buffer at once: magic, method, flags, mtime (taken
\* as 0), xfl by level, os
GzipHeader(level) ==
    <<31, 139, 8, 0, 0, 0, 0, 0,
      IF level = 9 THEN 2 ELSE IF level = 1 THEN 4 ELSE 0, 255>>

\* little-endian bytes of n
LE2(n) == <<n % 256, (n \div 256) % 256>>
LE4(n) == <<n % 256, (n \div 256) % 256, (n \div 65536) % 256,
            (n \div 16777216) % 256>>

\* F(x), with x computed before F is entered (an argument is otherwise
\* computed where it is first read, inside F, which nests a loop of n passes
\* n deep)
Then(x, F(_)) == CHOOSE y \in {F(v) : v \in {x}} : TRUE

\* bitwise exclusive or of two bytes, and of two 16-bit values
Xor8(a, b) ==
    (((a + b) % 2) + 2 * ((a \div 2 + b \div 2) % 2))
    + (4 * ((a \div 4 + b \div 4) % 2) + 8 * ((a \div 8 + b \div 8) % 2))
    + ((16 * ((a \div 16 + b \div 16) % 2)
        + 32 * ((a \div 32 + b \div 32) % 2))
       + (64 * ((a \div 64 + b \div 64) % 2)
          + 128 * ((a \div 128 + b \div 128) % 2)))
Xor(a, b) ==
    Xor8(a % 256, b % 256) + 256 * Xor8(a \div 256, b \div 256)

\* CRC-32 as zlib.crc32 computes it.  A 32-bit value is the pair
\* <<high 16 bits, low 16 bits>>; crc_table of zlib (polynomial 0xEDB88320,
\* reflected), entry i + 1 for the byte i
Crc32Table ==
    <<<<0, 0>>, <<30471, 12438>>, <<60942, 24876>>, <<39177, 20922>>,
      <<1901, 50201>>, <<28778, 62607>>, <<59747, 42293>>, <<40548, 38307>>,
      <<3803, 34866>>, <<31196, 47268>>, <<57557, 59678>>, <<38866, 55688>>,
      <<2486, 19499>>, <<32433, 31933>>, <<59320, 11527>>, <<37055, 7569>>,
      <<7607, 4196>>, <<27312, 8434>>, <<62393, 29000>>, <<33982, 16862>>,
      <<6874, 54397>>, <<28125, 58603>>, <<62676, 46417>>, <<33747, 34247>>,
      <<4972, 38998>>, <<25707, 43200>>, <<64866, 63866>>, <<35429, 51692>>,
      <<5121, 23631>>, <<25350, 27865>>, <<64015, 15715>>, <<36104, 3573>>,
      <<15214, 8392>>, <<19561, 4190>>, <<54624, 16868>>, <<41575, 29042>>,
      <<15363, 58577>>, <<19204, 54343>>, <<53773, 34301>>, <<42250, 46443>>,
      <<13749, 43258>>, <<17074, 39020>>, <<56251, 51670>>, <<44220, 63808>>,
      <<13016, 27875>>, <<17887, 23669>>, <<56534, 3535>>, <<43985, 15705>>,
      <<9945, 12460>>, <<20958, 58>>, <<51415, 20864>>, <<49104, 24854>>,
      <<8628, 62645>>, <<22195, 50211>>, <<53178, 38297>>, <<47293, 42255>>,
      <<10242, 47262>>, <<24325, 34824>>, <<50700, 55730>>, <<45323, 59684>>,
      <<12143, 31879>>, <<22632, 19473>>, <<49505, 7595>>, <<46694, 11581>>,
      <<30428, 16784>>, <<475, 28934>>, <<39122, 8380>>, <<61397, 4138>>,
      <<29105, 34185>>, <<1718, 46367>>, <<40895, 58533>>, <<59576, 54323>>,
      <<30727, 51618>>, <<3840, 63796>>, <<38409, 43150>>, <<57614, 38936>>,
      <<32618, 3515>>, <<2157, 15661>>, <<37220, 27799>>, <<58979, 23553>>,
      <<27499, 20980>>, <<7276, 24930>>, <<34149, 12504>>, <<62050, 78>>,
      <<27654, 38381>>, <<6913, 42363>>, <<33288, 62657>>, <<62735, 50263>>,
      <<26032, 55750>>, <<4791, 59728>>, <<35774, 47338>>, <<64697, 34940>>,
      <<25309, 7647>>, <<5594, 11593>>, <<36051, 31987>>, <<64468, 19557>>,
      <<19890, 24920>>, <<15029, 20942>>, <<41916, 116>>, <<54459, 12514>>,
      <<19167, 42305>>, <<15832, 38359>>, <<42193, 50285>>, <<54230, 62715>>,
      <<17257, 59754>>, <<13422, 55804>>, <<44391, 34886>>, <<55904, 47312>>,
      <<17412, 11635>>, <<13059, 7653>>, <<43530, 19551>>, <<56589, 31945>>,
      <<20485, 28988>>, <<9986, 16810>>, <<48651, 4112>>, <<51468, 8326>>,
      <<22376, 46373>>, <<8303, 34227>>, <<47462, 54281>>, <<52833, 58527>>,
      <<24286, 63758>>, <<10713, 51608>>, <<45264, 38946>>, <<51159, 43188>>,
      <<22963, 15639>>, <<11956, 3457>>, <<47037, 23611>>, <<49338, 27821>>,
      <<60856, 33568>>, <<39615, 46006>>, <<950, 57868>>, <<29873, 53914>>,
      <<60117, 18233>>, <<40402, 30639>>, <<1243, 9749>>, <<29660, 5763>>,
      <<58211, 2834>>, <<37988, 15236>>, <<3437, 27198>>, <<31338, 23208>>,
      <<58382, 53003>>, <<37641, 65437>>, <<2560, 44583>>, <<32007, 40625>>,
      <<61455, 37700>>, <<34568, 41938>>, <<7681, 62056>>, <<26886, 49918>>,
      <<63330, 22365>>, <<32869, 26571>>, <<6508, 13937>>, <<28267, 1767>>,
      <<65236, 7030>>, <<35283, 11232>>, <<4314, 31322>>, <<26589, 19148>>,
      <<63929, 57199>>, <<36542, 61433>>, <<6071, 48707>>, <<24752, 36565>>,
      <<54998, 41960>>, <<41425, 37758>>, <<14552, 49860>>, <<20447, 62034>>,
      <<53691, 26609>>, <<42684, 22375>>, <<16309, 1757>>, <<18610, 13899>>,
      <<55309, 11226>>, <<44810, 6988>>, <<13827, 19190>>, <<16644, 31328>>,
      <<57184, 61379>>, <<43111, 57173>>, <<12654, 36591>>, <<18025, 48761>>,
      <<52065, 45964>>, <<48230, 33562>>, <<9583, 53920>>, <<21096, 57910>>,
      <<52236, 30613>>, <<47883, 18179>>, <<8706, 5817>>, <<21765, 9775>>,
      <<50618, 15294>>, <<45757, 2856>>, <<11188, 23186>>, <<23731, 27140>>,
      <<49879, 65447>>, <<46544, 53041>>, <<11481, 40587>>, <<23518, 44573>>,
      <<39780, 49840>>, <<60515, 61990>>, <<30058, 41884>>, <<621, 37642>>,
      <<39945, 1705>>, <<60174, 13887>>, <<29191, 26501>>, <<1280, 22291>>,
      <<38335, 19074>>, <<58040, 31252>>, <<31665, 11182>>, <<3254, 6968>>,
      <<37586, 36507>>, <<58837, 48653>>, <<31964, 61367>>, <<3035, 57121>>,
      <<34515, 53972>>, <<61908, 57922>>, <<26845, 46072>>, <<8154, 33646>>,
      <<33214, 5837>>, <<63161, 9819>>, <<28592, 30689>>, <<6327, 18295>>,
      <<34824, 23270>>, <<65295, 27248>>, <<26118, 15306>>, <<4353, 2908>>,
      <<36709, 40703>>, <<63586, 44649>>, <<24939, 65491>>, <<5740, 53061>>,
      <<40970, 57976>>, <<55053, 53998>>, <<19972, 33620>>, <<14595, 46018>>,
      <<42855, 9825>>, <<53344, 5879>>, <<18793, 18253>>, <<15982, 30683>>,
      <<44753, 27210>>, <<55766, 23260>>, <<16607, 2918>>, <<14296, 15344>>,
      <<43452, 44627>>, <<57019, 40645>>, <<18354, 53119>>, <<12469, 65513>>,
      <<48573, 61980>>, <<51898, 49802>>, <<21427, 37680>>, <<9396, 41894>>,
      <<47824, 13829>>, <<52695, 1683>>, <<21726, 22313>>, <<9177, 26559>>,
      <<45926, 31278>>, <<50273, 19128>>, <<23912, 6914>>, <<10863, 11156>>,
      <<46091, 48695>>, <<49932, 36513>>, <<23045, 57115>>, <<11522, 61325>>>>

Crc32Lookup(c, t) ==
    <<Xor(t[1], c[1] \div 256),
      Xor(t[2], c[2] \div 256 + (c[1] % 256) * 256)>>
Crc32Update(c, byte) ==
    Crc32Lookup(c, Crc32Table[Xor8(c[2] % 256, byte) + 1])

\* the register c after bytes lo..hi of b (by halves)
RECURSIVE Crc32Range(_, _, _, _)
Crc32Range(b, lo, hi, c) ==
    IF lo > hi THEN c
    ELSE IF lo = hi THEN Crc32Update(c, b[lo])
    ELSE Then(Crc32Range(b, lo, (lo + hi) \div 2, c),
              LAMBDA x : Crc32Range(b, (lo + hi) \div 2 + 1, hi, x))

\* zlib.crc32(b), as the four bytes of the gzip trailer (little-endian)
Crc32Final(c) == LE2(65535 - c[2]) \o LE2(65535 - c[1])
Crc32Bytes(b) == Crc32Final(Crc32Range(b, 1, Len(b), <<65535, 65535>>))

\* zlib's deflate, as gzip.GzipFile runs it (raw stream, 32K window, memLevel
\* 8, default strategy), on an input it holds whole when it is finished.  The
\* positions of the input are those of zlib's window, from 0: w[p + 1] is
\* window[p].  configuration_table of deflate.c for the levels of
\* GzipSender.__init__: good_length, max_lazy, nice_length, max_chain, and
\* whether the level runs deflate_fast or deflate_slow
DeflateConfig(level) ==
    IF level = 1
    THEN [good_length |-> 4, max_lazy |-> 4, nice_length |-> 8,
          max_chain |-> 4, fast |-> TRUE]
    ELSE IF level = 9
    THEN [good_length |-> 32, max_lazy |-> 258, nice_length |-> 258,
          max_chain |-> 4096, fast |-> FALSE]
    ELSE [good_length |-> 4, max_lazy |-> 4, nice_length |-> 16,
          max_chain |-> 16, fast |-> FALSE]

\* ins_h after INSERT_STRING at each position p that has three bytes: entry
\* p + 1 is ((w[p] << 10) ^ (w[p+1] << 5) ^ w[p+2]) & 0x7fff
DeflateHashes(w) ==
    [i \in 1..(Len(w) - 2) |->
        Xor(Xor((w[i] % 32) * 1024, w[i + 1] * 32), w[i + 2])]

\* head[h], and prev[] along a chain: the last position inserted before the
\* position "before" whose hash is h; 0 is NIL, and so is position 0
HashChain(hs, ins, h, before) ==
    LET c == {q \in ins : q < before /\ hs[q + 1] = h}
    IN  IF c = {} THEN 0 ELSE CHOOSE q \in c : \A r \in c : r <= q

\* the number of bytes, up to max, that the input has in common from q and
\* from p on
MatchLength(w, q, p, max) ==
    LET d == {k \in 0..(max - 1) : w[q + k + 1] # w[p + k + 1]}
    IN  IF d = {} THEN max ELSE CHOOSE k \in d : \A j \in d : k <= j

\* the hash chain longest_match walks from cur_match: the positions inserted
\* with the hash of cur_match, from the last one down, chain_length of them at
\* most, position 0 left out
MatchChain(hs, ins, cur_match, chain_length) ==
    LET c == {q \in ins : q > 0 /\ q <= cur_match
                             /\ hs[q + 1] = hs[cur_match + 1]}
    IN  {q \in c : Cardinality({r \in c : r > q}) < chain_length}

\* the greatest of a set of naturals and a natural
MaxWith(S, n) ==
    IF \A x \in S : x <= n THEN n ELSE CHOOSE x \in S : \A y \in S : y <= x

\* the loop of longest_match over the chain, len[q] the length of the match
\* at q: a candidate becomes the best when its match is longer than the best
\* before it, and ends the loop when it is nice_match long as well
MatchVisited(chain, len, prev_length, nice_match) ==
    {q \in chain :
        \A r \in chain :
            r > q =>
                ~(/\ len[r] >= nice_match
                  /\ len[r] > MaxWith({len[x] : x \in {y \in chain : y > r}},
                                      prev_length))}

MatchBest(visited, len, prev_length, match_start) ==
    IF \A q \in visited : len[q] <= prev_length
    THEN [len |-> prev_length, start |-> match_start]
    ELSE [len |-> MaxWith({len[q] : q \in visited}, prev_length),
          start |-> CHOOSE q \in visited :
                        /\ len[q] = MaxWith({len[x] : x \in visited},
                                            prev_length)
                        /\ \A r \in visited : len[r] = len[q] => r <= q]

longest_match_loop(chain, len, prev_length, match_start, nice_match) ==
    MatchBest(MatchVisited(chain, len, prev_length, nice_match), len,
              prev_length, match_start)

longest_match_chain(w, p, chain, prev_length, match_start, nice_match) ==
    longest_match_loop(
        chain,
        [q \in chain |-> MatchLength(w, q, p, Min(258, Len(w) - p))],
        prev_length, match_start, nice_match)

\* longest_match(s, cur_match): the match length and match_start
longest_match_capped(best, lookahead) ==
    [len |-> Min(best.len, lookahead), start |-> best.start]
longest_match(w, hs, ins, p, cur_match, prev_length, match_start, cfg) ==
    longest_match_capped(
        longest_match_chain(
            w, p,
            MatchChain(hs, ins, cur_match,
                       IF prev_length >= cfg.good_length
                       THEN cfg.max_chain \div 4 ELSE cfg.max_chain),
            prev_length, match_start, Min(cfg.nice_length, Len(w) - p)),
        Len(w) - p)

\* the state of deflate at the top of its loop; a symbol is <<0, literal>> or
\* <<distance, length>>
DeflateState(strstart, match_length, match_start, match_available, ins, syms) ==
    [strstart |-> strstart, match_length |-> match_length,
     match_start |-> match_start, match_available |-> match_available,
     ins |-> ins, syms |-> syms]

\* deflate_fast (levels 1 to 3): one pass of its loop, from the match found
deflate_fast_match(w, st, cfg, ins, m) ==
    IF m.len >= 3
    THEN DeflateState(st.strstart + m.len, 0, m.start, FALSE,
             IF m.len <= cfg.max_lazy /\ Len(w) - st.strstart - m.len >= 3
             THEN ins \cup (st.strstart + 1)..(st.strstart + m.len - 1)
             ELSE ins,
             Append(st.syms, <<st.strstart - m.start, m.len>>))
    ELSE DeflateState(st.strstart + 1, m.len, m.start, FALSE, ins,
                      Append(st.syms, <<0, w[st.strstart + 1]>>))

deflate_fast_head(w, hs, cfg, st, hash_head, ins) ==
    deflate_fast_match(w, st, cfg, ins,
        IF hash_head # 0
        THEN longest_match(w, hs, ins, st.strstart, hash_head, 2,
                           st.match_start, cfg)
        ELSE [len |-> st.match_length, start |-> st.match_start])

deflate_fast(w, hs, cfg, st) ==
    IF Len(w) - st.strstart = 0 THEN st
    ELSE IF Len(w) - st.strstart >= 3
    THEN deflate_fast_head(w, hs, cfg, st,
             HashChain(hs, st.ins, hs[st.strstart + 1], st.strstart),
             st.ins \cup {st.strstart})
    ELSE deflate_fast_head(w, hs, cfg, st, 0, st.ins)

\* deflate_slow (levels 4 to 9), with lazy evaluation of matches: one pass of
\* its loop, from the match found; after the loop, the literal that is left
deflate_slow_match(w, st, ins, m) ==
    IF st.match_length >= 3 /\ m.len <= st.match_length
    THEN DeflateState(st.strstart - 1 + st.match_length, 2, m.start, FALSE,
             ins \cup {q \in (st.strstart + 1)..
                             (st.strstart + st.match_length - 2) :
                          q <= Len(w) - 3},
             Append(st.syms, <<st.strstart - 1 - st.match_start,
                               st.match_length>>))
    ELSE DeflateState(st.strstart + 1, m.len, m.start, TRUE, ins,
             IF st.match_available
             THEN Append(st.syms, <<0, w[st.strstart]>>)
             ELSE st.syms)

deflate_slow_found(w, st, ins, m) ==
    deflate_slow_match(w, st, ins,
        IF m.len = 3 /\ st.strstart - m.start > 4096
        THEN [len |-> 2, start |-> m.start] ELSE m)

deflate_slow_head(w, hs, cfg, st, hash_head, ins) ==
    deflate_slow_found(w, st, ins,
        IF hash_head # 0 /\ st.match_length < cfg.max_lazy
        THEN longest_match(w, hs, ins, st.strstart, hash_head,
                           st.match_length, st.match_start, cfg)
        ELSE [len |-> 2, start |-> st.match_start])

deflate_slow(w, hs, cfg, st) ==
    IF Len(w) - st.strstart = 0
    THEN IF st.match_available
         THEN [st EXCEPT !.match_available = FALSE,
                         !.syms = Append(@, <<0, w[st.strstart]>>)]
         ELSE st
    ELSE IF Len(w) - st.strstart >= 3
    THEN deflate_slow_head(w, hs, cfg, st,
             HashChain(hs, st.ins, hs[st.strstart + 1], st.strstart),
             st.ins \cup {st.strstart})
    ELSE deflate_slow_head(w, hs, cfg, st, 0, st.ins)

\* k passes of the loop of deflate (by halves); a pass at the end of the input
\* changes nothing
RECURSIVE DeflatePasses(_, _, _, _, _)
DeflatePasses(w, hs, cfg, st, k) ==
    IF k = 0 THEN st
    ELSE IF k = 1
    THEN IF cfg.fast THEN deflate_fast(w, hs, cfg, st)
         ELSE deflate_slow(w, hs, cfg, st)
    ELSE Then(DeflatePasses(w, hs, cfg, st, k \div 2),
              LAMBDA x : DeflatePasses(w, hs, cfg, x, k - k \div 2))

\* the symbols deflate tallies for the input w: every pass takes a byte at
\* least, and the literal left over takes one more
DeflateSymbols(w, level) ==
    DeflatePasses(w, DeflateHashes(w), DeflateConfig(level),
                  DeflateState(0, 2, 0, FALSE, {}, <<>>), Len(w) + 1).syms

\* the bits of v, nb of them: most significant first (a Huffman code) and
\* least significant first (extra bits)
CodeBits(v, nb) == [i \in 1..nb |-> (v \div 2 ^ (nb - i)) % 2]
ExtraBits(v, nb) == [i \in 1..nb |-> (v \div 2 ^ (i - 1)) % 2]

\* base_length / extra_lbits and base_dist / extra_dbits of trees.c
LengthBase ==
    <<3, 4, 5, 6, 7, 8, 9, 10, 11, 13, 15, 17, 19, 23, 27, 31, 35, 43, 51, 59,
      67, 83, 99, 115, 131, 163, 195, 227, 258>>
LengthExtra ==
    <<0, 0, 0, 0, 0, 0, 0, 0, 1, 1, 1, 1, 2, 2, 2, 2, 3, 3, 3, 3,
      4, 4, 4, 4, 5, 5, 5, 5, 0>>
DistBase ==
    <<1, 2, 3, 4, 5, 7, 9, 13, 17, 25, 33, 49, 65, 97, 129, 193, 257, 385,
      513, 769, 1025, 1537, 2049, 3073, 4097, 6145, 8193, 12289, 16385, 24577>>
DistExtra ==
    <<0, 0, 0, 0, 1, 1, 2, 2, 3, 3, 4, 4, 5, 5, 6, 6, 7, 7, 8, 8,
      9, 9, 10, 10, 11, 11, 12, 12, 13, 13>>

\* the last entry of base that is at most v
BaseIndex(base, v) ==
    CHOOSE i \in 1..Len(base) :
        base[i] <= v /\ (i = Len(base) \/ base[i + 1] > v)

\* static_ltree: the fixed code of a literal/length symbol 0..287
StaticCode(x) ==
    IF x < 144 THEN CodeBits(48 + x, 8)
    ELSE IF x < 256 THEN CodeBits(400 + x - 144, 9)
    ELSE IF x < 280 THEN CodeBits(x - 256, 7)
    ELSE CodeBits(192 + x - 280, 8)

\* compress_block with the static trees: the bits of one symbol
SymbolBits(sym) ==
    IF sym[1] = 0 THEN StaticCode(sym[2])
    ELSE LET lc == BaseIndex(LengthBase, sym[2])
             dc == BaseIndex(DistBase, sym[1])
         IN  StaticCode(256 + lc)
             \o ExtraBits(sym[2] - LengthBase[lc], LengthExtra[lc])
             \o CodeBits(dc - 1, 5)
             \o ExtraBits(sym[1] - DistBase[dc], DistExtra[dc])

\* the bits of symbols lo..hi (by halves)
RECURSIVE SymbolsBits(_, _, _)
SymbolsBits(syms, lo, hi) ==
    IF lo > hi THEN <<>>
    ELSE IF lo = hi THEN SymbolBits(syms[lo])
    ELSE SymbolsBits(syms, lo, (lo + hi) \div 2)
         \o SymbolsBits(syms, (lo + hi) \div 2 + 1, hi)

\* bi_flush: bits to bytes, the first bit the least significant
BitsToBytes(bits) ==
    [j \in 1..((Len(bits) + 7) \div 8) |->
        LET at(k) == IF 8 * (j - 1) + k <= Len(bits)
                     THEN bits[8 * (j - 1) + k] ELSE 0
        IN  at(1) + 2 * at(2) + 4 * at(3) + 8 * at(4) + 16 * at(5)
            + 32 * at(6) + 64 * at(7) + 128 * at(8)]

\* the sum of terms[lo..hi] (by halves)
RECURSIVE SumSeq(_, _, _)
SumSeq(terms, lo, hi) ==
    IF lo > hi THEN 0
    ELSE IF lo = hi THEN terms[lo]
    ELSE SumSeq(terms, lo, (lo + hi) \div 2)
         + SumSeq(terms, (lo + hi) \div 2 + 1, hi)

\* s from its last element to its first
Reverse(s) == [i \in 1..Len(s) |-> s[Len(s) + 1 - i]] \o <<>>

\* the tree descriptors of trees.c (l_desc, d_desc, bl_desc): the number of
\* symbols, the longest code, the extra bits of a symbol and the length of
\* its static code (the code lengths have no static tree)
TreeElems(kind) == IF kind = "l" THEN 286 ELSE IF kind = "d" THEN 30 ELSE 19
TreeMaxLength(kind) == IF kind = "bl" THEN 7 ELSE 15
TreeExtra(kind, n) ==
    IF kind = "l" THEN (IF n >= 257 THEN LengthExtra[n - 256] ELSE 0)
    ELSE IF kind = "d" THEN DistExtra[n + 1]
    ELSE IF n = 16 THEN 2 ELSE IF n = 17 THEN 3 ELSE IF n = 18 THEN 7 ELSE 0
TreeStaticLen(kind, n) ==
    IF kind = "l"
    THEN (IF n < 144 THEN 8 ELSE IF n < 256 THEN 9 ELSE IF n < 280 THEN 7 ELSE 8)
    ELSE IF kind = "d" THEN 5 ELSE 0

\* bl_order of trees.c
bl_order == <<16, 17, 18, 0, 8, 7, 9, 6, 10, 5, 11, 4, 12, 3, 13, 2, 14, 1, 15>>

\* smaller(tree, n, m, depth); node n is at index n + 1 of Freq and depth
smaller(t, n, m) ==
    \/ t.Freq[n + 1] < t.Freq[m + 1]
    \/ t.Freq[n + 1] = t.Freq[m + 1] /\ t.depth[n + 1] <= t.depth[m + 1]

\* pqdownheap: the node v goes down from k to its place in the heap
RECURSIVE pqdownheap_loop(_, _, _, _)
pqdownheap_loop(t, heap, v, k) ==
    IF 2 * k > Len(heap) THEN [heap EXCEPT ![k] = v]
    ELSE LET j == IF 2 * k < Len(heap)
                     /\ smaller(t, heap[2 * k + 1], heap[2 * k])
                  THEN 2 * k + 1 ELSE 2 * k
         IN  IF smaller(t, v, heap[j]) THEN [heap EXCEPT ![k] = v]
             ELSE pqdownheap_loop(t, [heap EXCEPT ![k] = heap[j]], v, j)

pqdownheap(t, heap, k) == pqdownheap_loop(t, heap, heap[k], k)

\* build_tree, "for (n = heap_len/2; n >= 1; n--) pqdownheap": n from hi down
\* to lo (by halves)
RECURSIVE build_tree_heap(_, _, _, _)
build_tree_heap(t, heap, lo, hi) ==
    IF lo > hi THEN heap
    ELSE IF lo = hi THEN pqdownheap(t, heap, lo)
    ELSE Then(build_tree_heap(t, heap, (lo + hi) \div 2 + 1, hi),
              LAMBDA h : build_tree_heap(t, h, lo, (lo + hi) \div 2))

\* build_tree, "while (heap_len < 2)": a tree has two codes at least
RECURSIVE build_tree_force(_)
build_tree_force(t) ==
    IF Len(t.heap) >= 2 THEN t
    ELSE LET node == IF t.max_code < 2 THEN t.max_code + 1 ELSE 0
         IN  build_tree_force(
                 [t EXCEPT !.heap = Append(@, node),
                           !.max_code = IF t.max_code < 2 THEN node ELSE @,
                           !.Freq[node + 1] = 1,
                           !.forced = Append(@, node)])

\* build_tree, one pass of "do ... while (heap_len >= 2)": the two nodes of
\* least frequency get a parent, which takes their place in the heap; order
\* is heap[heap_max..], the nodes in the order they left the heap
build_tree_join(t) ==
    LET n == t.heap[1]
        removed == pqdownheap(t, [i \in 1..(Len(t.heap) - 1) |->
                                     IF i = 1 THEN t.heap[Len(t.heap)]
                                     ELSE t.heap[i]] \o <<>>, 1)
        m == removed[1]
        depth == IF t.depth[n + 1] >= t.depth[m + 1]
                 THEN t.depth[n + 1] ELSE t.depth[m + 1]
        joined == [t EXCEPT !.Freq[t.node + 1] = t.Freq[n + 1] + t.Freq[m + 1],
                            !.depth[t.node + 1] = (depth + 1) % 256,
                            !.Dad[n + 1] = t.node,
                            !.Dad[m + 1] = t.node,
                            !.order = <<m, n>> \o @,
                            !.node = @ + 1]
    IN  [joined EXCEPT !.heap = pqdownheap(joined,
                                           [removed EXCEPT ![1] = t.node], 1)]

RECURSIVE build_tree_joins(_, _)
build_tree_joins(t, k) ==
    IF k = 0 THEN t
    ELSE IF k = 1 THEN build_tree_join(t)
    ELSE Then(build_tree_joins(t, k \div 2),
              LAMBDA x : build_tree_joins(x, k - k \div 2))

\* gen_bitlen, the first loop: the nodes order[lo..hi] get the length of
\* their parent and one, the longest length at most (by halves)
RECURSIVE gen_bitlen_lengths(_, _, _, _, _)
gen_bitlen_lengths(t, max_length, Len_, lo, hi) ==
    IF lo > hi THEN Len_
    ELSE IF lo = hi
    THEN LET bits == Len_[t.Dad[t.order[lo] + 1] + 1] + 1
         IN  [Len_ EXCEPT ![t.order[lo] + 1] =
                  IF bits > max_length THEN max_length ELSE bits]
    ELSE Then(gen_bitlen_lengths(t, max_length, Len_, lo, (lo + hi) \div 2),
              LAMBDA x : gen_bitlen_lengths(t, max_length, x,
                                            (lo + hi) \div 2 + 1, hi))

\* gen_bitlen, "do ... while (overflow > 0)": one leaf moves down the tree
\* and an overflow item becomes its brother
gen_bitlen_move(bl_count, max_length) ==
    LET bits == CHOOSE b \in 1..(max_length - 1) :
                    /\ bl_count[b + 1] # 0
                    /\ \A c \in (b + 1)..(max_length - 1) : bl_count[c + 1] = 0
        moved == [bl_count EXCEPT ![bits + 1] = @ - 1]
        brother == [moved EXCEPT ![bits + 2] = @ + 2]
    IN  [brother EXCEPT ![max_length + 1] = @ - 1]

RECURSIVE gen_bitlen_moves(_, _, _)
gen_bitlen_moves(bl_count, max_length, k) ==
    IF k = 0 THEN bl_count
    ELSE IF k = 1 THEN gen_bitlen_move(bl_count, max_length)
    ELSE Then(gen_bitlen_moves(bl_count, max_length, k \div 2),
              LAMBDA x : gen_bitlen_moves(x, max_length, k - k \div 2))

\* the number of codes longer than bits
RECURSIVE gen_bitlen_longer(_, _, _)
gen_bitlen_longer(bl_count, max_length, bits) ==
    IF bits >= max_length THEN 0
    ELSE bl_count[bits + 2] + gen_bitlen_longer(bl_count, max_length, bits + 1)

\* gen_bitlen: the code lengths of the symbols 0..max_code (bl_count[bits]
\* is at index bits + 1).  When a length overflowed, the lengths are given
\* again from the longest, to the leaves from the end of the heap
gen_bitlen(t, kind) ==
    LET max_length == TreeMaxLength(kind)
        first == gen_bitlen_lengths(t, max_length, [i \in 1..Len(t.Freq) |-> 0] \o <<>>,
                                    2, Len(t.order))
        overflow == Cardinality({h \in 2..Len(t.order) :
                        first[t.Dad[t.order[h] + 1] + 1] + 1 > max_length})
        leaves == SelectSeq(t.order, LAMBDA n : n <= t.max_code)
        counted == [b \in 1..16 |->
                       Cardinality({i \in 1..Len(leaves) :
                                        first[leaves[i] + 1] = b - 1})] \o <<>>
        bl_count == gen_bitlen_moves(counted, max_length, (overflow + 1) \div 2)
        back == Reverse(leaves)
        bits_of(i) == CHOOSE b \in 1..max_length :
                          /\ gen_bitlen_longer(bl_count, max_length, b) < i
                          /\ i <= gen_bitlen_longer(bl_count, max_length, b - 1)
    IN  IF overflow = 0
        THEN [Len_ |-> [n \in 1..(t.max_code + 1) |-> first[n]] \o <<>>,
              bl_count |-> counted]
        ELSE [Len_ |-> [n \in 1..(t.max_code + 1) |->
                          IF \E i \in 1..Len(back) : back[i] = n - 1
                          THEN bits_of(CHOOSE i \in 1..Len(back) : back[i] = n - 1)
                          ELSE 0] \o <<>>,
              bl_count |-> bl_count]

\* gen_codes: next_code[bits], the first code of a length
RECURSIVE next_code(_, _)
next_code(bl_count, bits) ==
    IF bits = 0 THEN 0
    ELSE 2 * (next_code(bl_count, bits - 1) + bl_count[bits])

\* gen_codes: the code of symbol n, the codes of a length in the order of the
\* symbols (the bits as they are sent, the code reversed by bi_reverse and
\* sent from its least significant bit)
gen_codes(Len_, bl_count) ==
    [n \in 1..Len(Len_) |->
        IF Len_[n] = 0 THEN <<>>
        ELSE CodeBits(next_code(bl_count, Len_[n])
                      + Cardinality({m \in 1..(n - 1) : Len_[m] = Len_[n]}),
                      Len_[n])] \o <<>>

\* build_tree for the frequencies Freq of the symbols of a tree (Freq[n + 1]
\* of symbol n): max_code, the code lengths and codes of 0..max_code, and what
\* the tree adds to opt_len and static_len
build_tree(kind, Freq) ==
    LET elems == TreeElems(kind)
        used == SelectSeq([i \in 1..elems |-> i - 1], LAMBDA n : Freq[n + 1] # 0)
        zero == [i \in 1..(2 * elems + 1) |-> 0] \o <<>>
        start == build_tree_force(
                     [Freq |-> Freq \o [i \in 1..(elems + 1) |-> 0],
                      depth |-> zero, Dad |-> zero, heap |-> used,
                      order |-> <<>>, node |-> elems, forced |-> <<>>,
                      max_code |-> IF used = <<>> THEN 0 - 1
                                   ELSE used[Len(used)]])
    IN  Then([start EXCEPT !.heap = build_tree_heap(start, start.heap, 1,
                                                    Len(start.heap) \div 2)],
        LAMBDA heaped :
        Then(build_tree_joins(heaped, Len(heaped.heap) - 1),
        LAMBDA joined :
        Then([joined EXCEPT !.order = <<joined.heap[1]>> \o @],
        LAMBDA t :
        Then(gen_bitlen(t, kind),
        LAMBDA g :
            [max_code |-> t.max_code,
             Len_ |-> g.Len_,
             Code |-> gen_codes(g.Len_, g.bl_count),
             opt_len |->
                 SumSeq([n \in 1..(t.max_code + 1) |->
                            t.Freq[n] * (g.Len_[n] + TreeExtra(kind, n - 1))],
                        1, t.max_code + 1)
                 - Len(t.forced),
             static_len |->
                 SumSeq([n \in 1..(t.max_code + 1) |->
                            t.Freq[n] * (TreeStaticLen(kind, n - 1)
                                         + TreeExtra(kind, n - 1))],
                        1, t.max_code + 1)
                 - SumSeq([i \in 1..Len(t.forced) |->
                              TreeStaticLen(kind, t.forced[i])],
                          1, Len(t.forced))]))))

\* scan_tree and send_tree, one pass of their loop over the symbols: a run of
\* equal code lengths that ends at symbol n is written as symbols of the
\* code-length alphabet, <<symbol, extra value, extra bits>>
send_tree_pass(Len_, st, n) ==
    LET curlen == Len_[n + 1]
        nextlen == IF n + 1 < Len(Len_) THEN Len_[n + 2] ELSE 65535
        count == st.count + 1
    IN  IF count < st.max_count /\ curlen = nextlen
        THEN [st EXCEPT !.count = count]
        ELSE [prevlen |-> curlen, count |-> 0,
              max_count |-> IF nextlen = 0 THEN 138
                            ELSE IF curlen = nextlen THEN 6 ELSE 7,
              min_count |-> IF nextlen = 0 THEN 3
                            ELSE IF curlen = nextlen THEN 3 ELSE 4,
              sent |-> st.sent \o
                  (IF count < st.min_count
                   THEN [i \in 1..count |-> <<curlen, 0, 0>>]
                   ELSE IF curlen # 0
                   THEN (IF curlen # st.prevlen
                         THEN <<<<curlen, 0, 0>>, <<16, count - 1 - 3, 2>>>>
                         ELSE <<<<16, count - 3, 2>>>>)
                   ELSE IF count <= 10 THEN <<<<17, count - 3, 3>>>>
                   ELSE <<<<18, count - 11, 7>>>>)]

RECURSIVE send_tree_passes(_, _, _, _)
send_tree_passes(Len_, st, lo, hi) ==
    IF lo > hi THEN st
    ELSE IF lo = hi THEN send_tree_pass(Len_, st, lo)
    ELSE Then(send_tree_passes(Len_, st, lo, (lo + hi) \div 2),
              LAMBDA x : send_tree_passes(Len_, x, (lo + hi) \div 2 + 1, hi))

\* scan_tree / send_tree: the code lengths Len_ of the symbols 0..max_code in
\* the code-length alphabet
send_tree(Len_) ==
    send_tree_passes(Len_,
                     [prevlen |-> 0 - 1, count |-> 0,
                      max_count |-> IF Len_[1] = 0 THEN 138 ELSE 7,
                      min_count |-> IF Len_[1] = 0 THEN 3 ELSE 4,
                      sent |-> <<>>],
                     0, Len(Len_) - 1).sent

\* _tr_tally: the frequencies of the literal/length symbols (END_BLOCK once)
\* and of the distance symbols
TallyLiterals(syms) ==
    [n \in 1..286 |->
        IF n - 1 = 256 THEN 1
        ELSE Cardinality({i \in 1..Len(syms) :
                 IF syms[i][1] = 0 THEN syms[i][2] = n - 1
                 ELSE 256 + BaseIndex(LengthBase, syms[i][2]) = n - 1})] \o <<>>
TallyDistances(syms) ==
    [n \in 1..30 |->
        Cardinality({i \in 1..Len(syms) :
            syms[i][1] # 0 /\ BaseIndex(DistBase, syms[i][1]) = n})] \o <<>>

\* compress_block with the trees ltree and dtree: the bits of one symbol
TreeSymbolBits(ltree, dtree, sym) ==
    IF sym[1] = 0 THEN ltree.Code[sym[2] + 1]
    ELSE LET lc == BaseIndex(LengthBase, sym[2])
             dc == BaseIndex(DistBase, sym[1])
         IN  ltree.Code[257 + lc]
             \o ExtraBits(sym[2] - LengthBase[lc], LengthExtra[lc])
             \o dtree.Code[dc]
             \o ExtraBits(sym[1] - DistBase[dc], DistExtra[dc])

RECURSIVE TreeSymbolsBits(_, _, _, _, _)
TreeSymbolsBits(ltree, dtree, syms, lo, hi) ==
    IF lo > hi THEN <<>>
    ELSE IF lo = hi THEN TreeSymbolBits(ltree, dtree, syms[lo])
    ELSE TreeSymbolsBits(ltree, dtree, syms, lo, (lo + hi) \div 2)
         \o TreeSymbolsBits(ltree, dtree, syms, (lo + hi) \div 2 + 1, hi)

\* the bits of the runs, symbols of the code-length alphabet, lo..hi
RECURSIVE CodeLengthBits(_, _, _, _)
CodeLengthBits(bltree, runs, lo, hi) ==
    IF lo > hi THEN <<>>
    ELSE IF lo = hi
    THEN bltree.Code[runs[lo][1] + 1] \o ExtraBits(runs[lo][2], runs[lo][3])
    ELSE CodeLengthBits(bltree, runs, lo, (lo + hi) \div 2)
         \o CodeLengthBits(bltree, runs, (lo + hi) \div 2 + 1, hi)

\* the length of the code of symbol n of the code-length alphabet
BlLen(bltree, n) == IF n + 1 <= Len(bltree.Len_) THEN bltree.Len_[n + 1] ELSE 0

\* build_bl_tree: the tree of the code lengths of the two trees, and
\* max_blindex, the last of bl_order that has a code (the third at least)
build_bl_tree(runs) ==
    Then(build_tree("bl", [n \in 1..19 |->
                              Cardinality({i \in 1..Len(runs) :
                                               runs[i][1] = n - 1})] \o <<>>),
         LAMBDA bltree :
             [tree |-> bltree,
              max_blindex |->
                  IF \E r \in 4..19 : BlLen(bltree, bl_order[r]) # 0
                  THEN (CHOOSE r \in 4..19 :
                            /\ BlLen(bltree, bl_order[r]) # 0
                            /\ \A q \in (r + 1)..19 :
                                   BlLen(bltree, bl_order[q]) = 0) - 1
                  ELSE 2])

\* send_all_trees and compress_block with the dynamic trees
DynamicBits(ltree, dtree, bl, runs, syms) ==
    ExtraBits(ltree.max_code + 1 - 257, 5)
    \o ExtraBits(dtree.max_code + 1 - 1, 5)
    \o ExtraBits(bl.max_blindex + 1 - 4, 4)
    \o [i \in 1..(3 * (bl.max_blindex + 1)) |->
           (BlLen(bl.tree, bl_order[(i - 1) \div 3 + 1]) \div 2 ^ ((i - 1) % 3)) % 2]
    \o CodeLengthBits(bl.tree, runs, 1, Len(runs))
    \o TreeSymbolsBits(ltree, dtree, syms, 1, Len(syms))
    \o ltree.Code[257]

\* _tr_flush_block for the one block of the input, which is the last: the
\* trees are built, and the block is stored when that is not longer than the
\* shorter of the two codings, written with the static trees when they are
\* not longer than the dynamic ones, and with the dynamic trees otherwise
tr_flush_block(w, syms) ==
    Then(build_tree("l", TallyLiterals(syms)),
    LAMBDA ltree :
    Then(build_tree("d", TallyDistances(syms)),
    LAMBDA dtree :
    Then(send_tree(ltree.Len_) \o send_tree(dtree.Len_),
    LAMBDA runs :
    Then(build_bl_tree(runs),
    LAMBDA bl :
        LET opt_len == ltree.opt_len + dtree.opt_len + bl.tree.opt_len
                       + 3 * (bl.max_blindex + 1) + 5 + 5 + 4
            static_len == ltree.static_len + dtree.static_len
            static_lenb == (static_len + 3 + 7) \div 8
            opt_lenb == IF static_lenb <= (opt_len + 3 + 7) \div 8
                        THEN static_lenb ELSE (opt_len + 3 + 7) \div 8
        IN  IF Len(w) + 4 <= opt_lenb
            THEN <<1>> \o LE2(Len(w)) \o LE2(65535 - Len(w)) \o w
            ELSE IF static_lenb = opt_lenb
            THEN BitsToBytes(<<1, 1, 0>> \o SymbolsBits(syms, 1, Len(syms))
                             \o StaticCode(256))
            ELSE BitsToBytes(<<1, 0, 1>>
                             \o DynamicBits(ltree, dtree, bl, runs, syms))))))

\* compressobj.flush(): the raw deflate stream of the input w
Deflate(w, level) == tr_flush_block(w, DeflateSymbols(w, level))

\* What GzipFile.close() appends for the input written so far: the deflate
\* stream, then CRC-32 and ISIZE.  (GzipFile.write gives the compressor the
\* input, which keeps it: deflate writes nothing before it has a block of
\* symbols, 16383 of them.)
GzipClose(pending, level) ==
    Deflate(pending, level) \o Crc32Bytes(pending) \o LE4(Len(pending))

\* GzipSender.__init__ / BrotliSender.__init__: the level from config (FAST,
\* BEST, otherwise)
GzipLevel(compress_level) ==
    IF compress_level = "FAST" THEN 1
    ELSE IF compress_level = "BEST" THEN 9 ELSE 4

BrotliQuality(compress_level) ==
    IF compress_level = "FAST" THEN 1
    ELSE IF compress_level = "BEST" THEN 11 ELSE 4

\* locals of the send coroutine that is running, and its compressor: the
\* BytesIO buffer, the level, the input the compressor holds (pending) and the
\* input it has given its output for (consumed)
Sender(name, next, first, buffer, pending, body, more_body, here, should_stop, level, consumed) ==
    [name |-> name, next |-> next, first |-> first, buffer |-> buffer,
     pending |-> pending, body |-> body, more_body |-> more_body,
     here |-> here, should_stop |-> should_stop, level |-> level,
     consumed |-> consumed]

NoSender == Sender(<<>>, 1, TRUE, <<>>, <<>>, <<>>, FALSE, 0, FALSE, 0, <<>>)

GzipSender_init(compress_level) ==
    Sender(v_gzip, 1, TRUE, GzipHeader(GzipLevel(compress_level)), <<>>,
           <<>>, FALSE, 0, FALSE, GzipLevel(compress_level), <<>>)

BrotliSender_init(compress_level) ==
    Sender(v_br, 1, TRUE, <<>>, <<>>, <<>>, FALSE, 0, FALSE,
           BrotliQuality(compress_level), <<>>)

\* the header update that leaves a Content-Length where it is
CompressFirstHeaders_keeps(headers, body, more_body) ==
    IF more_body THEN headers
    ELSE DictSet(headers, h_Content_Length, Utf8Encode(IntToStr(Len(body))))

\* the header update of CompressionSenderAbc.send on the first chunk
CompressFirstHeaders(headers, body, more_body) ==
    IF more_body THEN DictPop(headers, h_Content_Length)
    ELSE DictSet(headers, h_Content_Length, Utf8Encode(IntToStr(Len(body))))

\* truthiness of request.authorization_info
Truthy(x) == x # None /\ x # <<>>

\* send_in_one_call that forgets the header
AttachAuthenticationInfo_never(headers, req) == headers

\* the first lines of send_in_one_call
AttachAuthenticationInfo(headers, req) ==
    IF Truthy(req.authorization_info)
    THEN DictSet(headers, h_Authentication_Info, req.authorization_info)
    ELSE headers

\* the choice of method without the length test
ChooseCompressionMethod_no_length_test(resp, req, cfg) ==
    IF can_be_compressed(
           Utf8Decode(DictGetOr(resp.headers, h_Content_Type, <<>>)),
           cfg.compression.content_type_user_rule)
    THEN IF cfg.brotli /\ cfg.compression.enable_brotli /\ req.accept_encoding.br
         THEN "BROTLI"
         ELSE IF cfg.compression.enable_gzip /\ req.accept_encoding.gzip
         THEN "GZIP"
         ELSE "NONE"
    ELSE "NONE"

\* the method send_in_one_call chooses: the length test, then can_be_compressed,
\* then brotli, then gzip
ChooseCompressionMethod(resp, req, cfg) ==
    IF resp.content_length # NoneInt /\ resp.content_length < MinimumLength
    THEN "SMALL"
    ELSE IF can_be_compressed(
                Utf8Decode(DictGetOr(resp.headers, h_Content_Type, <<>>)),
                cfg.compression.content_type_user_rule)
    THEN IF cfg.brotli /\ cfg.compression.enable_brotli /\ req.accept_encoding.br
         THEN "BROTLI"
         ELSE IF cfg.compression.enable_gzip /\ req.accept_encoding.gzip
         THEN "GZIP"
         ELSE "NONE"
    ELSE "NONE"

\* _send_in_direct that leaves the headers as they are
DirectHeaders_untouched(resp) == resp.headers

\* the header update of _send_in_direct
DirectHeaders(resp) ==
    IF resp.content_length # NoneInt
    THEN DictSet(resp.headers, h_Content_Length,
                 Utf8Encode(IntToStr(resp.content_length)))
    ELSE resp.headers

\* os.read(fd, length) on a file [content, pos]: the bytes and the file after
os_read(file, length) ==
    LET data == SubSeq(file.content, file.pos + 1,
                       Min(file.pos + length, Len(file.content)))
    IN  [data |-> data, file |-> [file EXCEPT !.pos = file.pos + Len(data)]]

\* a seek that leaves the file where it is
os_lseek_nowhere(file, offset) == file

\* os.lseek(fd, offset, os.SEEK_SET)
os_lseek(file, offset) == [file EXCEPT !.pos = offset]

\* DEFAULT_HIDE_FILE_IN_DIR_RULES (asgi_webdav.constants): a rule under the
\* empty pattern and rules under user-agent patterns.  Here "" -> "^Thumbs" and
\* "^WD" -> "^DS|^_".
DEFAULT_HIDE_FILE_IN_DIR_RULES ==
    <<<<<<>>, <<94, 84, 104, 117, 109, 98, 115>>>>,
      <<<<94, 87, 68>>, <<94, 68, 83, 124, 94, 95>>>>>>

\* _merge_rules keeping only the second rule
_merge_rules_second(rules_a, rules_b) == rules_b

\* DAVHideFileInDir._merge_rules
_merge_rules(rules_a, rules_b) ==
    IF rules_a = None THEN rules_b ELSE rules_a \o <<124>> \o rules_b

\* "merge user's rules": the loop over config.hide_file_in_dir.user_rules
RECURSIVE MergeUserRules(_, _)
MergeUserRules(data_rules, user_rules) ==
    IF Len(user_rules) = 0 THEN data_rules
    ELSE LET k == user_rules[1][1]
             v == user_rules[1][2]
         IN  MergeUserRules(
                 IF DictHas(data_rules, k)
                 THEN DictSet(data_rules, k,
                              _merge_rules(DictGet(data_rules, k), v))
                 ELSE DictSet(data_rules, k, v),
                 Tail(user_rules))

\* asyncio.Lock(): not locked, no waiter; woken is the waiter whose future
\* release() has set (0: none)
NewLock == [locked |-> FALSE, waiters |-> <<>>, woken |-> 0]

\* DAVHideFileInDir.__init__.  A disabled filter returns before it sets any
\* other attribute: the object has the attribute enable alone.
DAVHideFileInDir_init(cfg) ==
    IF ~cfg.hide_file_in_dir.enable
    THEN [enable |-> FALSE]
    ELSE LET merged == MergeUserRules(
                           IF cfg.hide_file_in_dir.enable_default_rules
                           THEN DEFAULT_HIDE_FILE_IN_DIR_RULES ELSE <<>>,
                           cfg.hide_file_in_dir.user_rules)
             basic == DictGet(merged, <<>>)
             others == DictPop(merged, <<>>)
         IN  [enable |-> TRUE,
              _data_rules |->
                  IF DictHas(merged, <<>>)
                  THEN [i \in 1..Len(others) |->
                           <<others[i][1], _merge_rules(basic, others[i][2])>>]
                  ELSE merged,
              _data_rules_basic |-> basic,
              _ua_to_rule_mapping |-> <<>>,
              _ua_to_rule_mapping_lock |-> NewLock]

\* the AttributeError a read of an attribute that was never set raises
AttributeError == <<-3>>

\* get_rule_by_client_user_agent taking the last matching pattern
get_rule_by_client_user_agent_last(h, ua) ==
    IF "_data_rules" \notin DOMAIN h THEN AttributeError
    ELSE
    LET hits == {i \in 1..Len(h._data_rules) : re_match(h._data_rules[i][1], ua)}
    IN  IF hits # {}
        THEN h._data_rules[CHOOSE i \in hits : \A j \in hits : i >= j][2]
        ELSE h._data_rules_basic

\* DAVHideFileInDir.get_rule_by_client_user_agent; on a disabled filter the
\* loop reads self._data_rules, which __init__ has not set
get_rule_by_client_user_agent(h, ua) ==
    IF "_data_rules" \notin DOMAIN h THEN AttributeError
    ELSE
    LET hits == {i \in 1..Len(h._data_rules) : re_match(h._data_rules[i][1], ua)}
    IN  IF hits # {}
        THEN h._data_rules[CHOOSE i \in hits : \A j \in hits : i <= j][2]
        ELSE h._data_rules_basic

\* DAVHideFileInDir.is_match_file_name
is_match_file_name(rule, file_name) == re_match(rule, file_name)

\* asyncio.Lock.acquire up to its await: taken at once when the lock is free
\* and nobody waits, otherwise the task joins the waiters
LockAcquire(lock, t) ==
    IF ~lock.locked /\ lock.waiters = <<>>
    THEN [lock EXCEPT !.locked = TRUE]
    ELSE [lock EXCEPT !.waiters = Append(@, t)]

\* asyncio.Lock.acquire after its await: the woken waiter leaves the queue and
\* holds the lock
LockWoken(lock, t) ==
    [lock EXCEPT !.waiters = SelectSeq(@, LAMBDA w : w # t),
                 !.locked = TRUE, !.woken = 0]

\* asyncio.Lock.release: unlocked, and the future of the first waiter is set
LockRelease(lock) ==
    [lock EXCEPT !.locked = FALSE,
                 !.woken = IF lock.waiters = <<>> THEN 0 ELSE lock.waiters[1]]

\* an update that puts the cache in place of the old one
CacheUpdate_alone(mapping, ua, rule) == <<<<ua, rule>>>>

\* dict.update({ua: rule}) on the cache
CacheUpdate(mapping, ua, rule) == DictSet(mapping, ua, rule)

\* an early return that leaves the lock as it is
ExitRelease_keeps(lock) == lock

\* the lock's __aexit__ on the early return
ExitRelease(lock) == LockRelease(lock)

----------------------------------------------------------------------------
(* The configurations, clients and requests of the model *)

\* "al", "bo", "zz", "a:b", "a" / "pw", "p2", "p0", "xx", "c", "b:c"
Account(username, password) == [username |-> username, password |-> password]
al_pw == Account(<<97, 108>>, <<112, 119>>)
bo_p2 == Account(<<98, 111>>, <<112, 50>>)
al_p0 == Account(<<97, 108>>, <<112, 48>>)
al_xx == Account(<<97, 108>>, <<120, 120>>)
zz_pw == Account(<<122, 122>>, <<112, 119>>)
ab_c == Account(<<97, 58, 98>>, <<99>>)
a_bc == Account(<<97>>, <<98, 58, 99>>)

\* config.account_mapping: two plain accounts; or two accounts whose
\* "username:password" is the same text, and one username configured twice
AccountsPlain == <<al_pw, bo_p2>>
AccountsClash == <<ab_c, a_bc, al_p0, al_pw>>

\* config.http_digest_auth with rules "^MS|^TC" and "^WD|^TC"
DigestConfig(enable) ==
    [enable |-> enable,
     enable_rule |-> <<94, 77, 83, 124, 94, 84, 67>>,
     disable_rule |-> <<94, 87, 68, 124, 94, 84, 67>>]

CompressionConfig(enable_gzip, enable_brotli, level, content_type_user_rule) ==
    [enable_gzip |-> enable_gzip, enable_brotli |-> enable_brotli,
     level |-> level, content_type_user_rule |-> content_type_user_rule]

\* config.hide_file_in_dir
HideConfig(enable, enable_default_rules, user_rules) ==
    [enable |-> enable, enable_default_rules |-> enable_default_rules,
     user_rules |-> user_rules]

\* a Config, and whether the brotli module could be imported (response.py:25-28)
Config(accounts, digest, compression, brotli, hide_file_in_dir) ==
    [account_mapping |-> accounts, http_digest_auth |-> digest,
     compression |-> compression, brotli |-> brotli,
     hide_file_in_dir |-> hide_file_in_dir]

ConfigSet ==
    {Config(AccountsPlain, DigestConfig(TRUE),
            CompressionConfig(TRUE, TRUE, "DEFAULT", <<>>), TRUE,
            HideConfig(TRUE, TRUE, <<>>)),
     Config(AccountsPlain, DigestConfig(FALSE),
            CompressionConfig(TRUE, TRUE, "BEST",
                              <<94, 105, 109, 97, 103, 101, 47>>), FALSE,
            HideConfig(FALSE, TRUE, <<>>)),
     Config(AccountsClash, DigestConfig(TRUE),
            CompressionConfig(FALSE, FALSE, "FAST", <<>>), TRUE,
            HideConfig(TRUE, FALSE, <<>>)),
     Config(AccountsClash, DigestConfig(FALSE),
            CompressionConfig(FALSE, TRUE, "FAST", <<>>), TRUE,
            HideConfig(TRUE, TRUE, <<>>))}

\* uuid4().hex values: "u1", "u2", "s1"; "OP"
UuidSet == {<<117, 49>>, <<117, 50>>}
SecretSet == {<<115, 49>>}
OpaqueSet == {<<79, 80>>}

\* "GET", "PUT"
GET == <<71, 69, 84>>
PUT == <<80, 85, 84>>
OtherMethod(method) == IF method = GET THEN PUT ELSE GET

\* The clients: method, user-agent ("WD/3", "MS/1", "curl"), accept-encoding
\* and whether the server offers http.response.zerocopysend in the scope.
Client(method, user_agent, br, gzip, zerocopysend) ==
    [method |-> method, client_user_agent |-> user_agent,
     accept_encoding |-> [br |-> br, gzip |-> gzip],
     zerocopysend |-> zerocopysend]

ClientSet ==
    {Client(GET, <<87, 68, 47, 51>>, FALSE, FALSE, FALSE),
     Client(PUT, <<77, 83, 47, 49>>, FALSE, TRUE, TRUE),
     Client(GET, <<99, 117, 114, 108>>, TRUE, TRUE, FALSE),
     Client(PUT, <<99, 117, 114, 108>>, TRUE, FALSE, TRUE)}

\* the identities clients present: configured ones, a wrong password, an
\* unknown user
BasicIdentities == {al_pw, bo_p2, al_p0, al_xx, zz_pw, ab_c, a_bc}
DigestIdentities == {al_pw, al_xx, zz_pw}

\* "Basic ", "basic ", "bAsIc "
BasicPrefixes ==
    {<<66, 97, 115, 105, 99, 32>>, <<98, 97, 115, 105, 99, 32>>,
     <<98, 65, 115, 73, 99, 32>>}

\* the token with its i-th byte changed
MutateByte(token, i) ==
    [j \in 1..Len(token) |->
        IF j = i THEN (IF token[j] = 65 THEN 66 ELSE 65) ELSE token[j]]

ClientBasicToken(id) ==
    b64encode(Utf8Encode(id.username \o <<58>> \o id.password))

BasicHeaders ==
    {<<66, 97, 115, 105, 99, 32>> \o ClientBasicToken(id) :
        id \in BasicIdentities}
    \cup {p \o ClientBasicToken(al_pw) : p \in BasicPrefixes}
    \cup {<<66, 97, 115, 105, 99, 32>> \o MutateByte(ClientBasicToken(al_pw), i) :
             i \in 1..Len(ClientBasicToken(al_pw))}
    \cup {<<66, 97, 115, 105, 99, 32>>,
          <<66, 97, 115, 105, 99, 32>>
              \o SubSeq(ClientBasicToken(al_pw), 1, 7),
          <<66, 97, 115, 105, 99, 32>> \o ClientBasicToken(al_pw) \o <<61>>,
          <<66, 97, 115, 105, 99, 32, 32>> \o ClientBasicToken(al_pw)}

\* neither scheme: "", "Basic", "Bearer x", "Digest"
OtherHeaders ==
    {<<>>, <<66, 97, 115, 105, 99>>, <<66, 101, 97, 114, 101, 114, 32, 120>>,
     <<68, 105, 103, 101, 115, 116>>}

\* What a Digest client computes (RFC 2617 3.2.2.1): the response for
\* qop=auth, and the response of a client that sends no usable qop.
ClientHA1(id) ==
    md5_hexdigest(Utf8Encode(
        id.username \o <<58>> \o realm \o <<58>> \o id.password))

ClientHA2(method, uri) == md5_hexdigest(Utf8Encode(method \o <<58>> \o uri))

ClientResponseAuth(id, method, nonce_, nc, cnonce, qop, uri) ==
    md5_hexdigest(Utf8Encode(
        ClientHA1(id) \o <<58>> \o nonce_ \o <<58>> \o nc \o <<58>> \o cnonce
        \o <<58>> \o qop \o <<58>> \o ClientHA2(method, uri)))

ClientResponseLegacy(id, method, nonce_, uri) ==
    md5_hexdigest(Utf8Encode(
        ClientHA1(id) \o <<58>> \o nonce_ \o <<58>> \o ClientHA2(method, uri)))

\* "n1", "/", "OP", "00000001", "c1", "auth-int"
c_nonce == <<110, 49>>
c_uri == <<47>>
c_opaque == <<79, 80>>
c_nc == <<48, 48, 48, 48, 48, 48, 48, 49>>
c_cnonce == <<99, 49>>
c_cnonce_utf8 == <<99, 233>>
v_auth_int == <<97, 117, 116, 104, 45, 105, 110, 116>>

\* the fields a client sends, as <<key, value, quoted>>
ClientFields(id, qop, cnonce, response_) ==
    <<<<k_username, id.username, TRUE>>,
      <<k_realm, realm, TRUE>>,
      <<k_nonce, c_nonce, TRUE>>,
      <<k_uri, c_uri, TRUE>>,
      <<k_response, response_, TRUE>>,
      <<k_algorithm, v_MD5, FALSE>>,
      <<k_opaque, c_opaque, TRUE>>,
      <<k_qop, qop, FALSE>>,
      <<k_nc, c_nc, FALSE>>,
      <<k_cnonce, cnonce, TRUE>>>>

\* the fields as header text: key=value or key="value", joined by ", "
RenderFields(fields) ==
    Utf8Encode(Join(<<44, 32>>,
        [i \in 1..Len(fields) |->
            IF fields[i][3]
            THEN fields[i][1] \o <<61, 34>> \o fields[i][2] \o <<34>>
            ELSE fields[i][1] \o <<61>> \o fields[i][2]]))

WithoutKey(fields, k) == SelectSeq(fields, LAMBDA f : f[1] # k)

\* "Digest ", "digest ", "DIGEST "
p_Digest == <<68, 105, 103, 101, 115, 116, 32>>
DigestPrefixes ==
    {p_Digest, <<100, 105, 103, 101, 115, 116, 32>>,
     <<68, 73, 71, 69, 83, 84, 32>>}

\* a correct qop=auth header of identity id for a request with this method
GoodAuthFields(id, method, cnonce) ==
    ClientFields(id, v_auth, cnonce,
                 ClientResponseAuth(id, method, c_nonce, c_nc, cnonce,
                                    v_auth, c_uri))

\* a correct header of a client whose qop is not "auth"
GoodLegacyFields(id, method, qop) ==
    ClientFields(id, qop, c_cnonce,
                 ClientResponseLegacy(id, method, c_nonce, c_uri))

DigestHeadersOf(id, method) ==
    LET good == GoodAuthFields(id, method, c_cnonce)
        response_ == ClientResponseAuth(id, method, c_nonce, c_nc, c_cnonce,
                                        v_auth, c_uri)
    IN  {p \o RenderFields(good) : p \in DigestPrefixes}
        \cup {p_Digest \o RenderFields(WithoutKey(good, good[i][1])) :
                 i \in 1..Len(good)}
        \cup {p_Digest \o RenderFields(GoodLegacyFields(id, method, q)) :
                 q \in {<<>>, v_auth_int}}
        \cup {\* the response in upper case
              p_Digest \o RenderFields(
                  ClientFields(id, v_auth, c_cnonce, Upper(response_))),
              \* the response of the other form
              p_Digest \o RenderFields(
                  ClientFields(id, v_auth, c_cnonce,
                      ClientResponseLegacy(id, method, c_nonce, c_uri))),
              p_Digest \o RenderFields(
                  ClientFields(id, <<>>, c_cnonce, response_)),
              \* the response made for another method
              p_Digest \o RenderFields(
                  GoodAuthFields(id, OtherMethod(method), c_cnonce)),
              \* a cnonce outside ASCII
              p_Digest \o RenderFields(GoodAuthFields(id, method, c_cnonce_utf8)),
              \* a fragment with no "=": ", junk"
              p_Digest \o RenderFields(good)
                  \o <<44, 32, 106, 117, 110, 107>>,
              \* a byte that is not UTF-8
              p_Digest \o RenderFields(good) \o <<255>>,
              \* username given twice, the known one first
              p_Digest \o RenderFields(
                  good \o <<<<k_username, zz_pw.username, TRUE>>>>)}

DigestHeaders(method) ==
    UNION {DigestHeadersOf(id, method) : id \in DigestIdentities}
    \cup {p_Digest, p_Digest \o <<255>>}

\* the values of the Authorization header; None: the request has none
AuthorizationHeaders(method) ==
    {None} \cup BasicHeaders \cup OtherHeaders \cup DigestHeaders(method)

\* n bytes of content: "bcdeabcde..."
Data(n) == [i \in 1..n |-> 97 + (i % 5)]

\* What the resource layer hands to DAVResponse(...): the arguments of the
\* constructor, and the bytes of the file a zero-copy content refers to.
ResponseArgs(response_type, headers, content, content_length, content_range_start, file_content) ==
    [response_type |-> response_type, headers |-> headers, content |-> content,
     content_length |-> content_length,
     content_range_start |-> content_range_start,
     file_content |-> file_content]

\* "image/png"
v_image_png == <<105, 109, 97, 103, 101, 47, 112, 110, 103>>

BytesResponses ==
    {ResponseArgs(t, <<>>, BytesContent(Data(n)), NoneInt, NoneInt, <<>>) :
        t \in {"HTML", "UNDECIDED"},
        n \in {0, MinimumLength - 1, MinimumLength, BlockSize, BlockSize + 3}}
    \cup {\* a content type of the caller's
          ResponseArgs("UNDECIDED", <<<<h_Content_Type, v_image_png>>>>,
                       BytesContent(Data(MinimumLength + 1)), NoneInt, NoneInt,
                       <<>>),
          \* a range: the part from byte 2 of a resource of
          \* MinimumLength + 2 bytes
          ResponseArgs("HTML", <<>>, BytesContent(Data(MinimumLength)),
                       MinimumLength + 2, 2, <<>>),
          \* the whole resource as content, with its length and a start
          ResponseArgs("UNDECIDED", <<>>, BytesContent(Data(MinimumLength + 2)),
                       MinimumLength + 2, 2, <<>>),
          \* a start past the length: content_length is the int -1
          ResponseArgs("HTML", <<>>, BytesContent(Data(MinimumLength)),
                       MinimumLength, MinimumLength + 1, <<>>)}

\* streams: no chunk at all, one chunk, two chunks; length unknown or given
StreamSet ==
    {<<>>,
     <<<<Data(3), FALSE>>>>,
     <<<<Data(MinimumLength), TRUE>>, <<Data(2), FALSE>>>>}

RECURSIVE StreamLength(_)
StreamLength(chunks) ==
    IF Len(chunks) = 0 THEN 0
    ELSE Len(chunks[1][1]) + StreamLength(Tail(chunks))

StreamResponses ==
    {ResponseArgs(t, <<>>, GeneratorContent(c), NoneInt, NoneInt, <<>>) :
        t \in {"HTML", "XML", "UNDECIDED"}, c \in StreamSet}
    \cup {ResponseArgs("HTML", <<>>, GeneratorContent(c), StreamLength(c),
                       NoneInt, <<>>) : c \in StreamSet}
    \cup {\* a Content-Length header of the caller's, and the length
          ResponseArgs("HTML",
                       <<<<h_Content_Length,
                           Utf8Encode(IntToStr(MinimumLength + 2))>>>>,
                       GeneratorContent(<<<<Data(MinimumLength + 1), TRUE>>,
                                          <<Data(1), FALSE>>>>),
                       MinimumLength + 2, NoneInt, <<>>),
          \* a Content-Length header of the caller's alone
          ResponseArgs("UNDECIDED", <<<<h_Content_Length, <<52>>>>>>,
                       GeneratorContent(<<<<Data(4), FALSE>>>>),
                       NoneInt, NoneInt, <<>>)}

\* zero-copy files: offset and count absent or given
ZeroCopyResponses ==
    {ResponseArgs(t, <<>>, DAVZeroCopySendData(3, oc[1], oc[2]), NoneInt,
                  NoneInt, Data(BlockSize + 2)) :
        t \in {"HTML", "UNDECIDED"},
        oc \in {<<NoneInt, NoneInt>>, <<2, 3>>, <<NoneInt, BlockSize>>,
                <<0, 0>>}}
    \cup {ResponseArgs("HTML", <<>>, DAVZeroCopySendData(3, NoneInt, 3), 3,
                       NoneInt, Data(5))}

ResponseSet == BytesResponses \cup StreamResponses \cup ZeroCopyResponses

\* the bytes of a content, chunk after chunk
RECURSIVE ConcatChunks(_)
ConcatChunks(chunks) ==
    IF Len(chunks) = 0 THEN <<>>
    ELSE chunks[1][1] \o ConcatChunks(Tail(chunks))

\* the input a compressor has been given when it is closed, for the contents of
\* ResponseSet and of the 401 responses, and GzipClose for them under the
\* levels of GzipSender.__init__ (computed once)
ClosedInputs ==
    {ConcatChunks(set_content(a.content)._content.chunks) : a \in ResponseSet}
    \cup {MESSAGE_401(message) :
              message \in {reason_miss_header, reason_no_permission,
                           reason_unknown_method}}
GzipClosed ==
    [level \in {1, 4, 9} |-> [w \in ClosedInputs |-> GzipClose(w, level)]]

\* A meta-block of brotli that holds data as it is (ISUNCOMPRESSED), after the
\* stream header when it is the first (WBITS for a window of 22 bits): ISLAST
\* 0, MNIBBLES 4, MLEN - 1, ISUNCOMPRESSED 1, padding, the bytes
BrotliMetaBlock(first, data) ==
    IF first
    THEN <<11 + ((Len(data) - 1) % 2) * 128, ((Len(data) - 1) \div 2) % 256,
           (Len(data) - 1) \div 512 + 128>> \o data
    ELSE <<((Len(data) - 1) * 8) % 256, ((Len(data) - 1) \div 32) % 256,
           (Len(data) - 1) \div 8192 + 8>> \o data

\* The encoder writes its input as it is when coding it with prefix codes
\* gives no shorter meta-block.  Where it codes an input that is sent here,
\* this is what the encoder of libbrotli 1.0.9 writes (MODE_TEXT, a window of
\* 22 bits), <<quality, input, output>>: with quality 1 what process(input)
\* returns for the first input, with the other qualities what finish() returns
\* for the input held, the last meta-block with it.
BrotliCodedAs ==
    {<<1, Data(64),
       <<139, 31, 0, 0, 128, 170, 170, 170, 234, 255, 112, 58, 19, 17, 51,
         28, 192, 125, 234, 149, 38, 177, 193, 152, 99, 71, 219, 78, 48>>>>,
     <<4, Data(64),
       <<27, 63, 0, 0, 4, 110, 192, 198, 218, 168, 120, 39, 138, 178, 29>>>>,
     <<4, Data(67),
       <<27, 66, 0, 0, 4, 110, 192, 198, 218, 168, 120, 39, 10, 180, 29>>>>,
     <<4, MESSAGE_401(reason_no_permission),
       <<27, 166, 0, 0, 4, 162, 185, 245, 149, 116, 72, 119, 62, 24, 223,
         111, 134, 104, 104, 62, 108, 176, 109, 48, 63, 169, 147, 3, 151,
         31, 52, 106, 81, 222, 214, 60, 10, 36, 179, 59, 6, 117, 178, 252,
         161, 60, 27, 138, 98, 55, 155, 37, 192, 45, 169, 12, 206, 65, 36,
         128, 118, 143, 231, 248, 235, 243, 184, 182, 137, 195, 240, 137,
         26, 205, 237, 94, 107, 46, 166, 88, 36, 232, 244, 5, 216, 44, 253,
         179, 136, 157, 135, 240, 12, 248, 153, 170, 191, 191, 59, 99, 82,
         76, 106, 46, 146, 3, 161, 93, 115, 137, 222, 12>>>>,
     <<4, MESSAGE_401(reason_miss_header),
       <<27, 179, 0, 0, 4, 162, 205, 237, 46, 211, 17, 123, 38, 52, 197,
         247, 91, 195, 24, 123, 208, 131, 130, 26, 232, 79, 233, 228, 192,
         229, 129, 158, 90, 160, 109, 113, 139, 2, 201, 44, 160, 148, 3,
         221, 88, 62, 221, 243, 160, 197, 34, 195, 206, 18, 160, 26, 68,
         132, 115, 144, 21, 64, 154, 249, 115, 252, 62, 205, 207, 101, 226,
         48, 124, 188, 120, 53, 189, 198, 248, 6, 83, 204, 2, 116, 122, 2,
         108, 86, 252, 53, 39, 221, 183, 196, 221, 225, 103, 87, 249, 237,
         93, 105, 101, 78, 248, 111, 60, 40, 230, 199, 203, 215, 37, 230,
         20, 136, 156, 40, 49, 123, 171, 10>>>>,
     <<4, MESSAGE_401(reason_unknown_method),
       <<27, 182, 0, 0, 68, 209, 77, 63, 163, 26, 226, 249, 114, 204, 33,
         228, 226, 47, 239, 150, 171, 147, 3, 151, 31, 244, 212, 2, 109,
         107, 30, 5, 146, 89, 8, 17, 4, 110, 178, 76, 40, 140, 128, 197,
         226, 62, 59, 75, 128, 41, 33, 37, 224, 28, 100, 5, 0, 57, 7, 62,
         199, 31, 103, 96, 21, 77, 28, 134, 15, 123, 78, 65, 213, 199, 177,
         30, 76, 49, 23, 64, 211, 19, 128, 205, 210, 95, 187, 76, 149, 105,
         6, 189, 192, 207, 174, 250, 63, 248, 24, 122, 25, 151, 245, 89,
         96, 46, 118, 97, 97, 239, 12, 251, 117, 193, 28, 216, 173, 94, 38,
         93, 150, 137, 168, 44, 147, 142, 243, 164, 0>>>>,
     <<11, Data(64),
       <<27, 63, 0, 248, 5, 110, 192, 198, 218, 168, 120, 39, 10, 40, 219,
         1>>>>,
     <<11, Data(67),
       <<27, 66, 0, 248, 5, 110, 192, 198, 218, 168, 120, 39, 10, 64, 219,
         1>>>>,
     <<11, MESSAGE_401(reason_no_permission),
       <<27, 166, 0, 0, 28, 137, 113, 76, 201, 42, 19, 63, 29, 81, 130,
         196, 184, 181, 2, 77, 21, 154, 244, 129, 121, 211, 201, 129, 195,
         255, 90, 36, 9, 7, 81, 64, 205, 19, 72, 119, 200, 158, 35, 49, 89,
         42, 165, 134, 14, 18, 156, 131, 28, 160, 89, 240, 136, 195, 64,
         14, 177, 109, 84, 53, 98, 153, 86, 147, 200, 128, 239, 88, 250, 7,
         252, 122, 100, 88, 246, 77, 104, 0>>>>,
     <<11, MESSAGE_401(reason_miss_header),
       <<27, 179, 0, 0, 28, 7, 118, 227, 14, 242, 103, 199, 136, 70, 104,
         149, 32, 49, 62, 85, 133, 214, 10, 48, 52, 110, 244, 100, 33, 119,
         63, 166, 40, 81, 201, 102, 82, 84, 130, 111, 136, 229, 248, 201,
         51, 86, 228, 176, 176, 131, 26, 214, 65, 14, 80, 44, 184, 196, 65,
         160, 12, 49, 109, 212, 109, 196, 60, 173, 118, 34, 3, 124, 59,
         227, 27, 240, 18, 79, 248, 63, 154, 132, 132, 70, 48, 7, 156, 66,
         26>>>>,
     <<11, MESSAGE_401(reason_unknown_method),
       <<27, 182, 0, 0, 157, 7, 118, 76, 217, 192, 81, 243, 165, 177, 4,
         137, 169, 106, 5, 24, 26, 52, 237, 83, 150, 70, 167, 198, 220,
         244, 100, 33, 119, 119, 38, 21, 69, 41, 102, 82, 84, 130, 119,
         136, 244, 188, 137, 200, 88, 74, 11, 251, 79, 224, 12, 228, 0, 77,
         130, 107, 26, 4, 50, 194, 150, 81, 247, 13, 139, 176, 156, 64, 6,
         248, 142, 204, 127, 191, 115, 47, 65, 240, 242, 201, 2, 42, 166,
         150, 127, 83, 54, 3>>>>}

BrotliCoded(quality, input) ==
    {e[3] : e \in {x \in BrotliCodedAs : x[1] = quality /\ x[2] = input}}

\* What Compressor.process(body) returns after the input consumed.  With
\* quality 1 the encoder gives every input it is handed out at once, as a
\* meta-block; with a higher quality it keeps the input until a block of it is
\* full (which no content here fills) or the stream is finished.
BrotliProcess(consumed, body, quality) ==
    IF quality > 1 \/ body = <<>> THEN <<>>
    ELSE IF consumed = <<>> /\ BrotliCoded(quality, body) # {}
    THEN CHOOSE output \in BrotliCoded(quality, body) : TRUE
    ELSE BrotliMetaBlock(consumed = <<>>, body)

\* What Compressor.finish() returns after the input consumed, for the input
\* it holds: that input as a meta-block, and the empty last meta-block (ISLAST
\* 1, ISLASTEMPTY 1); the stream of no input is the header with the last
\* meta-block
BrotliFinish(consumed, pending, quality) ==
    IF pending = <<>> THEN (IF consumed # <<>> THEN <<3>> ELSE <<59>>)
    ELSE IF consumed = <<>> /\ BrotliCoded(quality, pending) # {}
    THEN CHOOSE output \in BrotliCoded(quality, pending) : TRUE
    ELSE BrotliMetaBlock(consumed = <<>>, pending) \o <<3>>

\* GzipSender.write / BrotliSender.write
CompressWrite(snd, body) ==
    IF snd.name = v_gzip \/ BrotliProcess(snd.consumed, body, snd.level) = <<>>
    THEN [snd EXCEPT !.pending = @ \o body]
    ELSE [snd EXCEPT
             !.buffer = @ \o BrotliProcess(snd.consumed, body, snd.level),
             !.consumed = @ \o body]

\* GzipSender.close / BrotliSender.close (GzipClose is read from the table
\* where the table has the input)
CompressClose(snd) ==
    [snd EXCEPT
        !.buffer = @ \o (IF snd.name # v_gzip
                         THEN BrotliFinish(snd.consumed, snd.pending, snd.level)
                         ELSE IF snd.pending \in ClosedInputs
                         THEN GzipClosed[snd.level][snd.pending]
                         ELSE GzipClose(snd.pending, snd.level)),
        !.consumed = @ \o snd.pending,
        !.pending = <<>>]

\* the buffer is taken and emptied: body = buffer.getvalue(), seek, truncate
CompressTake(snd, more_body) ==
    [snd EXCEPT !.buffer = <<>>, !.body = snd.buffer,
                !.more_body = more_body, !.first = FALSE]

\* CompressionSenderAbc.send, one pass of the loop up to the body message:
\* write(body), close() on the last chunk, take and empty the buffer
CompressChunk(snd, body, more_body) ==
    CompressTake(IF more_body THEN CompressWrite(snd, body)
                 ELSE CompressClose(CompressWrite(snd, body)),
                 more_body)

----------------------------------------------------------------------------
(* The state machine: one request at a time goes from the transport through
   pick_out_user, then either create_response_401 or the resource layer, then
   send_in_one_call, message by message. *)

NoRequest ==
    [method |-> <<>>, headers |-> <<>>, client_user_agent |-> <<>>,
     accept_encoding |-> [br |-> FALSE, gzip |-> FALSE],
     zerocopysend |-> FALSE,
     authorization_method |-> <<>>, authorization_info |-> <<>>]

NoAuth == PickResult(FALSE, NoUser, <<>>, <<>>, <<>>, None)

NoResponse ==
    [status |-> 0, headers |-> <<>>, _content |-> GeneratorContent(<<>>),
     content_length |-> NoneInt, content_range |-> FALSE,
     content_range_start |-> NoneInt, compression_method |-> "UNSET"]

NoFile == [content |-> <<>>, pos |-> 0]

NoCall == [fn |-> "none"]

\* nothing observed yet: no nonce issued, no verdict of pick_out_user seen, no
\* request served
NoHistory == [issued |-> {}, seen |-> {}, served |-> 0]

Init ==
    /\ config \in ConfigSet
    /\ digest_secret \in SecretSet
    /\ digest_opaque \in OpaqueSet
    /\ user_mapping = DAVAuth_init(<<>>, <<>>, config).user_mapping
    /\ credential_user_mapping =
           DAVAuth_init(<<>>, <<>>, config).credential_user_mapping
    /\ pc = "idle"
    /\ request = NoRequest
    /\ auth = NoAuth
    /\ response = NoResponse
    /\ sender = NoSender
    /\ files = NoFile
    /\ sent = <<>>
    /\ call = NoCall
    /\ result = None
    /\ history = NoHistory
    /\ hide = DAVHideFileInDir_init(config)
    /\ tasks = <<>>

authvars == <<user_mapping, credential_user_mapping, config, digest_secret,
              digest_opaque>>

fnvars == <<call, result>>

hidevars == <<hide, tasks>>

\* the transport hands over a request: a DAVRequest with its defaults
NewRequest ==
    /\ pc = "idle"
    /\ \E client \in ClientSet :
       \E h \in AuthorizationHeaders(client.method) :
           request' = [method |-> client.method,
                       headers |-> IF h = None THEN <<>>
                                   ELSE <<<<h_authorization, h>>>>,
                       client_user_agent |-> client.client_user_agent,
                       accept_encoding |-> client.accept_encoding,
                       zerocopysend |-> client.zerocopysend,
                       authorization_method |-> <<>>,
                       authorization_info |-> <<>>]
    /\ pc' = "auth"
    /\ UNCHANGED <<authvars, hidevars, fnvars, history, auth, response, sender, files, sent>>

\* DAVAuth.pick_out_user(request)
PickOutUser ==
    /\ pc = "auth"
    /\ LET r == pick_out_user(request)
       IN  /\ auth' = r
           /\ request' = [request EXCEPT
                             !.authorization_method = r.authorization_method,
                             !.authorization_info = r.authorization_info]
           /\ pc' = IF r.raised THEN "auth_raised"
                    ELSE IF r.user = NoUser THEN "deny"
                    ELSE "handle"
    /\ UNCHANGED <<authvars, hidevars, fnvars, history, response, sender, files, sent>>

\* DAVAuth.create_response_401(request, message), message the reason given
CreateResponse401 ==
    /\ pc = "deny"
    /\ \E uuid \in UuidSet :
           response' = create_response_401(request, auth.reason, uuid)
    /\ pc' = "send"
    /\ UNCHANGED <<authvars, hidevars, fnvars, history, request, auth, sender, files, sent>>

\* the resource layer answers an authenticated request with a DAVResponse
HandleRequest ==
    /\ pc = "handle"
    /\ \E a \in ResponseSet :
           /\ response' = DAVResponse_init(200, a.headers, a.response_type,
                                           a.content, a.content_length,
                                           a.content_range_start)
           /\ files' = [content |-> a.file_content, pos |-> 0]
    /\ pc' = "send"
    /\ UNCHANGED <<authvars, hidevars, fnvars, history, request, auth, sender, sent>>

\* DAVResponse.send_in_one_call(request), up to the first message: the
\* Authentication-Info header, the choice of method, then either
\* _send_in_direct up to its start message or the construction of the sender
\* and the first lines of CompressionSenderAbc.send.  Iterating a
\* DAVZeroCopySendData with "async for" raises TypeError.
SendInOneCall ==
    /\ pc = "send"
    /\ LET r1 == [response EXCEPT
                     !.headers = AttachAuthenticationInfo(@, request)]
           method == ChooseCompressionMethod(r1, request, config)
           chunks == r1._content.chunks
       IN  IF method \in {"SMALL", "NONE"}
           THEN LET r2 == [r1 EXCEPT
                              !.headers = DirectHeaders(r1),
                              !.compression_method =
                                  IF method = "NONE" THEN "NONE" ELSE @]
                IN  /\ response' = r2
                    /\ sent' = Append(sent, StartMessage(r2))
                    /\ sender' = NoSender
                    /\ pc' = IF r2._content.kind = "zerocopy" THEN "sendfile"
                             ELSE IF Len(chunks) = 0 THEN "done"
                             ELSE "direct"
           ELSE LET snd == IF method = "BROTLI"
                           THEN BrotliSender_init(config.compression.level)
                           ELSE GzipSender_init(config.compression.level)
                IN  /\ response' = [r1 EXCEPT
                                       !.headers = DictSet(@, h_Content_Encoding,
                                                           snd.name),
                                       !.compression_method = method]
                    /\ sent' = sent
                    /\ sender' = snd
                    /\ pc' = IF r1._content.kind = "zerocopy" THEN "send_raised"
                             ELSE IF Len(chunks) = 0 THEN "done"
                             ELSE "compress"
    /\ UNCHANGED <<authvars, hidevars, fnvars, history, request, auth, files>>

\* _send_in_direct: one pass of "async for data, more_body in self._content"
DirectBody ==
    /\ pc = "direct"
    /\ LET chunk == response._content.chunks[sender.next]
       IN  sent' = Append(sent, BodyMessage(chunk[1], chunk[2]))
    /\ sender' = [sender EXCEPT !.next = @ + 1]
    /\ pc' = IF sender.next = Len(response._content.chunks) THEN "done"
             ELSE "direct"
    /\ UNCHANGED <<authvars, hidevars, fnvars, history, request, auth, response, files>>

\* sendfile (create_send_or_zerocopy) when the scope offers
\* http.response.zerocopysend
ZeroCopySend ==
    /\ pc = "sendfile"
    /\ request.zerocopysend
    /\ sent' = Append(sent, ZeroCopySendMessage(response._content.file,
                                                response._content.offset,
                                                response._content.count, FALSE))
    /\ pc' = "done"
    /\ UNCHANGED <<authvars, hidevars, fnvars, history, request, auth, response, sender, files>>

\* fake_sendfile up to its loop: the seek, here = 0, should_stop = False
FakeSendfileSeek ==
    /\ pc = "sendfile"
    /\ ~request.zerocopysend
    /\ files' = IF response._content.offset # NoneInt
                THEN os_lseek(files, response._content.offset)
                ELSE files
    /\ sender' = [NoSender EXCEPT !.here = 0, !.should_stop = FALSE]
    /\ pc' = "fake_sendfile"
    /\ UNCHANGED <<authvars, hidevars, fnvars, history, request, auth, response, sent>>

\* fake_sendfile: one pass of either loop (count is None, or count given) up
\* to the end of "await run_in_threadpool(os.read, ...)": with a count,
\* should_stop and here are set before the read; the bytes read are data (the
\* field body here)
FakeSendfileRead ==
    /\ pc = "fake_sendfile"
    /\ LET count == response._content.count
           length == IF count = NoneInt THEN BlockSize
                     ELSE Min(BlockSize, count - sender.here)
           rd == os_read(files, length)
       IN  /\ files' = rd.file
           /\ sender' = [sender EXCEPT
                            !.here = IF count = NoneInt THEN @ ELSE @ + length,
                            !.should_stop = IF count = NoneInt THEN @
                                            ELSE length = count - sender.here,
                            !.body = rd.data]
    /\ pc' = "fake_sendfile_send"
    /\ UNCHANGED <<authvars, hidevars, fnvars, history, request, auth, response, sent>>

\* fake_sendfile: "await send(...)" of the pass, and the test of the loop;
\* without a count a short read is the last message and sets should_stop; the
\* more_body argument keeps its default False
FakeSendfileSend ==
    /\ pc = "fake_sendfile_send"
    /\ LET should_stop == IF response._content.count = NoneInt
                          THEN Len(sender.body) # BlockSize
                          ELSE sender.should_stop
       IN  /\ sent' = Append(sent, BodyMessage(sender.body, ~should_stop))
           /\ sender' = [sender EXCEPT !.should_stop = should_stop]
           /\ pc' = IF should_stop THEN "done" ELSE "fake_sendfile"
    /\ UNCHANGED <<authvars, hidevars, fnvars, history, request, auth, response, files>>

\* CompressionSenderAbc.send: one pass of the loop up to "send body": the chunk
\* is compressed, and on the first pass the headers are updated and the start
\* message is sent
CompressNext ==
    /\ pc = "compress"
    /\ \E chunk \in {response._content.chunks[sender.next]} :
       \E snd \in {CompressChunk(sender, chunk[1], chunk[2])} :
       \E r2 \in {[response EXCEPT
                      !.headers = CompressFirstHeaders(@, snd.body, chunk[2])]} :
           /\ sender' = snd
           /\ IF sender.first
              THEN /\ response' = r2
                   /\ sent' = Append(sent, StartMessage(r2))
              ELSE UNCHANGED <<response, sent>>
    /\ pc' = "compress_body"
    /\ UNCHANGED <<authvars, hidevars, fnvars, history, request, auth, files>>

\* CompressionSenderAbc.send: "send body", and on to the next chunk
CompressBody ==
    /\ pc = "compress_body"
    /\ sent' = Append(sent, BodyMessage(sender.body, sender.more_body))
    /\ sender' = [sender EXCEPT !.next = @ + 1]
    /\ pc' = IF sender.next = Len(response._content.chunks) THEN "done"
             ELSE "compress"
    /\ UNCHANGED <<authvars, hidevars, fnvars, history, request, auth, response, files>>

\* the request is over (answered, or ended by an exception): the next one
Finish ==
    /\ pc \in {"done", "auth_raised", "send_raised"}
    /\ pc' = "idle"
    /\ request' = NoRequest
    /\ auth' = NoAuth
    /\ response' = NoResponse
    /\ sender' = NoSender
    /\ files' = NoFile
    /\ sent' = <<>>
    /\ UNCHANGED <<authvars, hidevars, fnvars, history>>

Next ==
    \/ NewRequest
    \/ PickOutUser
    \/ CreateResponse401
    \/ HandleRequest
    \/ SendInOneCall
    \/ DirectBody
    \/ ZeroCopySend
    \/ FakeSendfileSeek
    \/ FakeSendfileRead
    \/ FakeSendfileSend
    \/ CompressNext
    \/ CompressBody
    \/ Finish

Spec == Init /\ [][Next]_vars

----------------------------------------------------------------------------
(* HTTPDigestAuth.build_request_digest applied on its own: to the parsed
   fields of a header, with qop absent, "auth", "", "auth-int" or "AUTH", nc
   absent or given, for a user of the user map. *)

\* "00000002", "n2", "/d", "AUTH"
c_nc2 == <<48, 48, 48, 48, 48, 48, 48, 50>>
c_nonce2 == <<110, 50>>
c_uri2 == <<47, 100>>
v_AUTH == <<65, 85, 84, 72>>

\* a dict of parsed fields; a value None leaves the key out
DigestData(nonce_, uri, qop, nc, cnonce) ==
    SelectSeq(<<<<k_nonce, nonce_>>, <<k_uri, uri>>, <<k_qop, qop>>,
                <<k_nc, nc>>, <<k_cnonce, cnonce>>>>,
              LAMBDA kv : kv[2] # None)

DigestDataSet ==
    {DigestData(n, u, q, nc, cn) :
        n \in {c_nonce, c_nonce2}, u \in {c_uri, c_uri2},
        q \in {None, v_auth, <<>>, v_auth_int, v_AUTH},
        nc \in {None, c_nc, c_nc2}, cn \in {c_cnonce, c_cnonce_utf8}}

InitDigest ==
    /\ config \in ConfigSet
    /\ digest_secret \in SecretSet
    /\ digest_opaque \in OpaqueSet
    /\ user_mapping = DAVAuth_init(<<>>, <<>>, config).user_mapping
    /\ credential_user_mapping =
           DAVAuth_init(<<>>, <<>>, config).credential_user_mapping
    /\ pc = "idle"
    /\ request = NoRequest
    /\ auth = NoAuth
    /\ response = NoResponse
    /\ sender = NoSender
    /\ files = NoFile
    /\ sent = <<>>
    /\ \E i \in 1..Len(user_mapping), method \in {GET, PUT},
          data \in DigestDataSet :
           call = [fn |-> "build_request_digest", method |-> method,
                   user |-> user_mapping[i][2], digest_auth_data |-> data]
    /\ result = None
    /\ history = NoHistory
    /\ hide = DAVHideFileInDir_init(config)
    /\ tasks = <<>>

\* HTTPDigestAuth.build_request_digest(request, user, digest_auth_data)
CallBuildRequestDigest ==
    /\ call.fn = "build_request_digest"
    /\ result = None
    /\ result' = build_request_digest(call.method, call.user,
                                      call.digest_auth_data)
    /\ UNCHANGED <<authvars, hidevars, pc, request, auth, response, sender, files, sent,
                   call, history>>

NextDigest == CallBuildRequestDigest

SpecDigest == InitDigest /\ [][NextDigest]_vars

----------------------------------------------------------------------------
(* Requests served one after the other by the same DAVAuth, seen from outside:
   each is authenticated by pick_out_user and, when no user comes out of it,
   answered by create_response_401, whose Digest challenge carries a fresh
   nonce.  The history keeps every nonce issued so far and, for every request,
   its method, its Authorization header, the verdict and the nonces issued
   before it. *)

MaxRequests == 3

\* the fields of a correct qop=auth header made for this nonce
ReplayFields(id, method, nonce_) ==
    LET response_ == ClientResponseAuth(id, method, nonce_, c_nc, c_cnonce,
                                        v_auth, c_uri)
        f == ClientFields(id, v_auth, c_cnonce, response_)
    IN  [i \in 1..Len(f) |->
            IF f[i][1] = k_nonce THEN <<k_nonce, nonce_, TRUE>> ELSE f[i]]

\* the nonces a server can issue: HTTPDigestAuth.nonce for every uuid and secret
IssuableNonces ==
    {md5_hexdigest(Utf8Encode(u \o s)) : u \in UuidSet, s \in SecretSet}

\* the header a configured account makes for GET with a nonce the server can
\* issue
ReplayAccepted ==
    p_Digest \o RenderFields(
        ReplayFields(al_pw, GET, CHOOSE n \in IssuableNonces : TRUE))

\* headers made for GET: by a configured account with a nonce the server can
\* issue, by a wrong password with a nonce of the client's own making; and no
\* header at all
ReplayHeaders ==
    {ReplayAccepted,
     p_Digest \o RenderFields(ReplayFields(al_xx, GET, c_nonce)),
     None}

\* user agent "MS/1" (challenged with Digest under every configuration) with
\* GET, "curl" with GET and with PUT
ReplayClients ==
    {Client(GET, <<77, 83, 47, 49>>, FALSE, FALSE, FALSE),
     Client(GET, <<99, 117, 114, 108>>, FALSE, FALSE, FALSE),
     Client(PUT, <<99, 117, 114, 108>>, FALSE, FALSE, FALSE)}

\* the requests served: the header of the configured account from every
\* client, the wrong password and no header from "MS/1"
ReplayRequests ==
    {<<client, h>> \in ReplayClients \X ReplayHeaders :
         \/ h = ReplayAccepted
         \/ client.client_user_agent = <<77, 83, 47, 49>>}

\* one request from arrival to pick_out_user and, for a request that is
\* denied, create_response_401
ServeRequest ==
    /\ pc = "idle"
    /\ history.served < MaxRequests
    /\ \E client \in ReplayClients, h \in ReplayHeaders :
       <<client, h>> \in ReplayRequests /\
       \E req \in {[method |-> client.method,
                    headers |-> IF h = None THEN <<>>
                                ELSE <<<<h_authorization, h>>>>,
                    client_user_agent |-> client.client_user_agent,
                    accept_encoding |-> client.accept_encoding,
                    zerocopysend |-> client.zerocopysend,
                    authorization_method |-> <<>>,
                    authorization_info |-> <<>>]} :
       \E r \in {pick_out_user(req)} :
           LET req2 == [req EXCEPT
                           !.authorization_method = r.authorization_method,
                           !.authorization_info = r.authorization_info]
               seen == history.seen \cup
                           {[method |-> req.method, authorization |-> h,
                             client_user_agent |-> req.client_user_agent,
                             accepted |-> r.user # NoUser,
                             issued |-> history.issued]}
           IN  /\ request' = req2
               /\ auth' = r
               /\ IF ~r.raised /\ r.user = NoUser
                  THEN \* a uuid is drawn only for a Digest challenge
                       \E uuid \in IF enable_digest(config,
                                                    req.client_user_agent)
                                    THEN UuidSet ELSE {<<>>} :
                           /\ response' =
                                  create_response_401(req2, r.reason, uuid)
                           /\ history' =
                                  [issued |-> IF uuid = <<>>
                                              THEN history.issued
                                              ELSE history.issued
                                                       \cup {nonce(uuid)},
                                   seen |-> seen,
                                   served |-> history.served + 1]
                  ELSE /\ response' = NoResponse
                       /\ history' = [history EXCEPT !.seen = seen,
                                                     !.served = @ + 1]
    /\ UNCHANGED <<authvars, hidevars, fnvars, pc, sender, files, sent>>

NextReplay == ServeRequest

SpecReplay == Init /\ [][NextReplay]_vars

----------------------------------------------------------------------------
(* DAVResponse(...) applied on its own: the constructor with a content of each
   kind, content_length and content_range_start absent or given (0 among the
   values), and afterwards an assignment to the content property.  The call
   keeps the arguments and the value the content was last given; the result is
   NoResponse until the constructor has returned. *)

ConstructContents ==
    {BytesContent(Data(0)), BytesContent(Data(MinimumLength + 2)),
     GeneratorContent(<<<<Data(3), FALSE>>>>),
     DAVZeroCopySendData(3, NoneInt, NoneInt),
     DAVZeroCopySendData(3, 2, 3),
     DAVZeroCopySendData(3, NoneInt, 3)}

ConstructLengths == {NoneInt, 0, MinimumLength + 2, MinimumLength + 4}

ConstructStarts == {NoneInt, 0, 2, MinimumLength + 3}

InitConstruct ==
    /\ config \in ConfigSet
    /\ digest_secret \in SecretSet
    /\ digest_opaque \in OpaqueSet
    /\ user_mapping = DAVAuth_init(<<>>, <<>>, config).user_mapping
    /\ credential_user_mapping =
           DAVAuth_init(<<>>, <<>>, config).credential_user_mapping
    /\ pc = "idle"
    /\ request = NoRequest
    /\ auth = NoAuth
    /\ response = NoResponse
    /\ sender = NoSender
    /\ files = [content |-> Data(5), pos |-> 0]
    /\ sent = <<>>
    /\ \E t \in {"HTML", "UNDECIDED"},
          h \in {<<>>, <<<<h_Content_Type, v_image_png>>>>},
          c \in ConstructContents, l \in ConstructLengths,
          s \in ConstructStarts :
           call = [fn |-> "DAVResponse", status |-> 200, headers |-> h,
                   response_type |-> t, content |-> c, content_length |-> l,
                   content_range_start |-> s, assigned |-> FALSE, value |-> c]
    /\ result = NoResponse
    /\ history = NoHistory
    /\ hide = DAVHideFileInDir_init(config)
    /\ tasks = <<>>

\* DAVResponse(status, headers, response_type, content, content_length,
\* content_range_start)
CallDAVResponse ==
    /\ call.fn = "DAVResponse"
    /\ result = NoResponse
    /\ result' = DAVResponse_init(call.status, call.headers, call.response_type,
                                  call.content, call.content_length,
                                  call.content_range_start)
    /\ UNCHANGED <<authvars, hidevars, pc, request, auth, response, sender, files, sent,
                   call, history>>

\* response.content = value, on the response constructed
AssignContent ==
    /\ call.fn = "DAVResponse"
    /\ result # NoResponse
    /\ ~call.assigned
    /\ \E value \in ConstructContents :
           /\ result' = [result EXCEPT
                            !._content = set_content(value)._content,
                            !.content_length = set_content(value).content_length]
           /\ call' = [call EXCEPT !.assigned = TRUE, !.value = value]
    /\ UNCHANGED <<authvars, hidevars, pc, request, auth, response, sender, files, sent,
                   history>>

NextConstruct == CallDAVResponse \/ AssignContent

SpecConstruct == InitConstruct /\ [][NextConstruct]_vars

----------------------------------------------------------------------------
(* fake_sendfile on its own: _send_in_direct has sent the start message of a
   zero-copy response to a client whose scope does not offer
   http.response.zerocopysend, and calls the function returned by
   create_send_or_zerocopy.  The files are empty, shorter than a block, one
   block, two blocks, and a little more; the counts are absent, 0, less than a
   block, one and two blocks, more than the file has. *)

SendfileSizes ==
    {0, 1, BlockSize - 1, BlockSize, BlockSize + 2, 2 * BlockSize,
     2 * BlockSize + 1}

SendfileOffsets == {NoneInt, 0, 2, BlockSize, 2 * BlockSize + 3}

SendfileCounts ==
    {NoneInt, 0, 1, BlockSize, BlockSize + 1, 2 * BlockSize, 3 * BlockSize}

InitSendfile ==
    /\ config \in ConfigSet
    /\ digest_secret \in SecretSet
    /\ digest_opaque \in OpaqueSet
    /\ user_mapping = DAVAuth_init(<<>>, <<>>, config).user_mapping
    /\ credential_user_mapping =
           DAVAuth_init(<<>>, <<>>, config).credential_user_mapping
    /\ pc = "sendfile"
    /\ request = [NoRequest EXCEPT !.method = GET]
    /\ auth = NoAuth
    /\ \E offset \in SendfileOffsets, count \in SendfileCounts :
           response = [DAVResponse_init(
                           200, <<>>, "UNDECIDED",
                           DAVZeroCopySendData(3, offset, count),
                           NoneInt, NoneInt)
                          EXCEPT !.compression_method = "NONE"]
    /\ sender = NoSender
    /\ \E n \in SendfileSizes : files = [content |-> Data(n), pos |-> 0]
    /\ sent = <<StartMessage(response)>>
    /\ call = NoCall
    /\ result = None
    /\ history = NoHistory
    /\ hide = DAVHideFileInDir_init(config)
    /\ tasks = <<>>

NextSendfile == FakeSendfileSeek \/ FakeSendfileRead \/ FakeSendfileSend

SpecSendfile == InitSendfile /\ [][NextSendfile]_vars

\* the coroutine is awaited by send_in_one_call: the event loop resumes it after
\* every await (run_in_threadpool, send) until it returns
FairSendfile == SpecSendfile /\ WF_vars(NextSendfile)

----------------------------------------------------------------------------
(* Concurrent calls of DAVHideFileInDir.is_match_hide_file_in_dir *)

\* the number of calls in flight
NumTasks == 2

\* config.hide_file_in_dir.user_rules:
\* {"^WD": "^tmp", "": "^~", "^curl|^WD/3": "^cu"}; {"": "^Th", "^W": "tmp"};
\* {"^W": "tmp"}
UserRulesBoth ==
    <<<<<<94, 87, 68>>, <<94, 116, 109, 112>>>>,
      <<<<>>, <<94, 126>>>>,
      <<<<94, 99, 117, 114, 108, 124, 94, 87, 68, 47, 51>>, <<94, 99, 117>>>>>>
UserRulesFallback ==
    <<<<<<>>, <<94, 84, 104>>>>, <<<<94, 87>>, <<116, 109, 112>>>>>>
UserRulesNoFallback == <<<<<<94, 87>>, <<116, 109, 112>>>>>>

HideConfigSet ==
    {HideConfig(TRUE, TRUE, <<>>),
     HideConfig(TRUE, TRUE, UserRulesBoth),
     HideConfig(TRUE, FALSE, UserRulesFallback),
     HideConfig(TRUE, FALSE, UserRulesNoFallback),
     HideConfig(FALSE, TRUE, UserRulesBoth)}

\* the user agents "WD/3", "MS/1" and the file names "Thumbs.db", "tmp1" the
\* calls are made with
HideUserAgents == {<<87, 68, 47, 51>>, <<77, 83, 47, 49>>}
HideFileNames ==
    {<<84, 104, 117, 109, 98, 115, 46, 100, 98>>, <<116, 109, 112, 49>>}

\* the configurations of the calls, and the rules that resolve under them
HideConfigs ==
    {Config(AccountsPlain, DigestConfig(FALSE),
            CompressionConfig(FALSE, FALSE, "DEFAULT", <<>>), FALSE, h) :
        h \in HideConfigSet}
HideRules ==
    {get_rule_by_client_user_agent(DAVHideFileInDir_init(cfg), ua) :
        cfg \in HideConfigs, ua \in HideUserAgents} \ {None, AttributeError}

\* get_rule_by_client_user_agent for each user agent, on the rules __init__
\* builds from each configuration (no call writes them); AttributeError under
\* a disabled configuration, where no call comes to the lookup
RuleByUserAgent ==
    [cfg \in HideConfigs |->
        [ua \in HideUserAgents |->
            get_rule_by_client_user_agent(DAVHideFileInDir_init(cfg), ua)]]

\* is_match_file_name for each of these rules and each file name
MatchFileName ==
    [rule \in HideRules |->
        [file_name \in HideFileNames |-> is_match_file_name(rule, file_name)]]

\* a call that has not been made
NoTask == [pc |-> "idle", ua |-> None, file_name |-> None, rule |-> None,
           result |-> None]

InitHide ==
    /\ config \in HideConfigs
    /\ digest_secret \in SecretSet
    /\ digest_opaque \in OpaqueSet
    /\ user_mapping = DAVAuth_init(<<>>, <<>>, config).user_mapping
    /\ credential_user_mapping =
           DAVAuth_init(<<>>, <<>>, config).credential_user_mapping
    /\ pc = "idle"
    /\ request = NoRequest
    /\ auth = NoAuth
    /\ response = NoResponse
    /\ sender = NoSender
    /\ files = NoFile
    /\ sent = <<>>
    /\ call = NoCall
    /\ result = None
    /\ history = NoHistory
    /\ hide = DAVHideFileInDir_init(config)
    /\ tasks = [t \in 1..NumTasks |-> NoTask]

nothidevars == <<authvars, pc, request, auth, response, sender, files, sent,
                 fnvars, history>>

\* a request handler calls is_match_hide_file_in_dir(ua, file_name); the calls
\* are numbered in the order they are made
HideCall(t) ==
    /\ tasks[t].pc = "idle"
    /\ t > 1 => tasks[t - 1].pc # "idle"
    /\ \E ua \in HideUserAgents, file_name \in HideFileNames :
           tasks' = [tasks EXCEPT ![t] = [NoTask EXCEPT !.pc = "called",
                                                        !.ua = ua,
                                                        !.file_name = file_name]]
    /\ UNCHANGED <<nothidevars, hide>>

\* is_match_hide_file_in_dir up to "async with": a disabled filter returns
\* False, otherwise the lock is acquired or the call waits for it
HideEnter(t) ==
    /\ tasks[t].pc = "called"
    /\ IF ~hide.enable
       THEN /\ tasks' = [tasks EXCEPT ![t].pc = "returned", ![t].result = FALSE]
            /\ UNCHANGED hide
       ELSE \E lock \in {LockAcquire(hide._ua_to_rule_mapping_lock, t)} :
                /\ hide' = [hide EXCEPT !._ua_to_rule_mapping_lock = lock]
                /\ tasks' = [tasks EXCEPT ![t].pc =
                                IF lock.waiters = <<>> THEN "locked"
                                ELSE "waiting"]
    /\ UNCHANGED nothidevars

\* the waiter release() has woken resumes in acquire() and holds the lock
HideWake(t) ==
    /\ tasks[t].pc = "waiting"
    /\ hide._ua_to_rule_mapping_lock.woken = t
    /\ hide' = [hide EXCEPT !._ua_to_rule_mapping_lock = LockWoken(@, t)]
    /\ tasks' = [tasks EXCEPT ![t].pc = "locked"]
    /\ UNCHANGED nothidevars

\* the lookup under the lock: the cached rule, or the rule
\* get_rule_by_client_user_agent resolves (None: the early return)
HideLookup(t) ==
    /\ tasks[t].pc = "locked"
    /\ IF DictHas(hide._ua_to_rule_mapping, tasks[t].ua)
       THEN tasks' = [tasks EXCEPT
                         ![t].rule = DictGet(hide._ua_to_rule_mapping,
                                             tasks[t].ua),
                         ![t].pc = "release"]
       ELSE \E rule \in {RuleByUserAgent[config][tasks[t].ua]} :
                tasks' = [tasks EXCEPT
                             ![t].rule = rule,
                             ![t].pc = IF rule = None THEN "return_false"
                                       ELSE "update"]
    /\ UNCHANGED <<nothidevars, hide>>

\* self._ua_to_rule_mapping.update({ua: rule})
HideUpdate(t) ==
    /\ tasks[t].pc = "update"
    /\ hide' = [hide EXCEPT !._ua_to_rule_mapping =
                                CacheUpdate(@, tasks[t].ua, tasks[t].rule)]
    /\ tasks' = [tasks EXCEPT ![t].pc = "release"]
    /\ UNCHANGED nothidevars

\* the end of the "async with" block: the lock is released
HideRelease(t) ==
    /\ tasks[t].pc = "release"
    /\ hide' = [hide EXCEPT !._ua_to_rule_mapping_lock = LockRelease(@)]
    /\ tasks' = [tasks EXCEPT ![t].pc = "match"]
    /\ UNCHANGED nothidevars

\* "return False" inside the "async with" block: __aexit__ releases the lock
HideReturnFalse(t) ==
    /\ tasks[t].pc = "return_false"
    /\ hide' = [hide EXCEPT !._ua_to_rule_mapping_lock = ExitRelease(@)]
    /\ tasks' = [tasks EXCEPT ![t].pc = "returned", ![t].result = FALSE]
    /\ UNCHANGED nothidevars

\* return self.is_match_file_name(rule, file_name)
HideMatch(t) ==
    /\ tasks[t].pc = "match"
    /\ tasks' = [tasks EXCEPT
                    ![t].pc = "returned",
                    ![t].result = MatchFileName[tasks[t].rule]
                                               [tasks[t].file_name]]
    /\ UNCHANGED <<nothidevars, hide>>

HideStep(t) ==
    \/ HideEnter(t)
    \/ HideWake(t)
    \/ HideLookup(t)
    \/ HideUpdate(t)
    \/ HideRelease(t)
    \/ HideReturnFalse(t)
    \/ HideMatch(t)

NextHide == \E t \in 1..NumTasks : HideCall(t) \/ HideStep(t)

\* The steps of the calls are interleaved statement by statement, which covers
\* the schedules of the event loop (a call runs from one await to the next).
SpecHide == InitHide /\ [][NextHide]_vars

\* the event loop resumes every call that is ready to run
FairHide == SpecHide /\ \A t \in 1..NumTasks : WF_vars(HideStep(t))

----------------------------------------------------------------------------
(* authorization_string_build_from_data and authorization_str_parser_to_data,
   one after the other *)

\* keys "k", "n", "a=b", "k " and values "v", "", " v", "a=b", "v w", "a,b",
\* "q"", "it's"
RoundTripKeys == {<<107>>, <<110>>, <<97, 61, 98>>, <<107, 32>>}
RoundTripValues ==
    {<<118>>, <<>>, <<32, 118>>, <<97, 61, 98>>, <<118, 32, 119>>,
     <<97, 44, 98>>, <<113, 34>>, <<105, 116, 39, 115>>}

\* the mappings of at most two keys
RoundTripData ==
    {<<>>}
    \cup {<<<<k, v>>>> : k \in RoundTripKeys, v \in RoundTripValues}
    \cup {<<<<k1, v1>>, <<k2, v2>>>> :
             k1 \in {<<107>>}, v1 \in RoundTripValues,
             k2 \in RoundTripKeys \ {<<107>>}, v2 \in {<<118>>, <<32, 118>>}}

InitRoundTrip ==
    /\ config \in ConfigSet
    /\ digest_secret \in SecretSet
    /\ digest_opaque \in OpaqueSet
    /\ user_mapping = DAVAuth_init(<<>>, <<>>, config).user_mapping
    /\ credential_user_mapping =
           DAVAuth_init(<<>>, <<>>, config).credential_user_mapping
    /\ pc = "idle"
    /\ request = NoRequest
    /\ auth = NoAuth
    /\ response = NoResponse
    /\ sender = NoSender
    /\ files = NoFile
    /\ sent = <<>>
    /\ \E data \in RoundTripData :
           call = [fn |-> "round_trip", step |-> "data", data |-> data,
                   built |-> <<>>, parsed |-> <<>>, rebuilt |-> <<>>]
    /\ result = None
    /\ history = NoHistory
    /\ hide = DAVHideFileInDir_init(config)
    /\ tasks = <<>>

\* authorization_string_build_from_data(data)
BuildFromData ==
    /\ call.fn = "round_trip" /\ call.step = "data"
    /\ call' = [call EXCEPT
                   !.step = "built",
                   !.built = authorization_string_build_from_data(call.data)]
    /\ UNCHANGED <<authvars, hidevars, pc, request, auth, response, sender,
                   files, sent, result, history>>

\* authorization_str_parser_to_data of the string built
ParseBuilt ==
    /\ call.fn = "round_trip" /\ call.step = "built"
    /\ call' = [call EXCEPT
                   !.step = "parsed",
                   !.parsed = authorization_str_parser_to_data(call.built)]
    /\ UNCHANGED <<authvars, hidevars, pc, request, auth, response, sender,
                   files, sent, result, history>>

\* authorization_string_build_from_data of the mapping parsed
BuildAgain ==
    /\ call.fn = "round_trip" /\ call.step = "parsed"
    /\ call' = [call EXCEPT
                   !.step = "rebuilt",
                   !.rebuilt = authorization_string_build_from_data(call.parsed)]
    /\ UNCHANGED <<authvars, hidevars, pc, request, auth, response, sender,
                   files, sent, result, history>>

NextRoundTrip == BuildFromData \/ ParseBuilt \/ BuildAgain

SpecRoundTrip == InitRoundTrip /\ [][NextRoundTrip]_vars

----------------------------------------------------------------------------
(* Several DAVAuth objects built one after the other in one process *)

\* the account lists of the configurations: al/p0; al/pw and bo/p2; zz/pw
RebuildAccounts == {<<al_p0>>, <<al_pw, bo_p2>>, <<zz_pw>>}

RebuildConfigs ==
    {Config(accounts, DigestConfig(TRUE),
            CompressionConfig(FALSE, FALSE, "DEFAULT", <<>>), FALSE,
            HideConfig(FALSE, TRUE, <<>>)) : accounts \in RebuildAccounts}

\* the headers of the clients: the Basic credential of each identity, and a
\* correct Digest header computed with each password of "al"
RebuildIdentities == {al_p0, al_pw, bo_p2, zz_pw, al_xx}
RebuildHeaders ==
    {<<66, 97, 115, 105, 99, 32>> \o ClientBasicToken(id) :
        id \in RebuildIdentities}
    \cup {p_Digest \o RenderFields(GoodAuthFields(id, GET, c_cnonce)) :
             id \in {al_p0, al_pw}}

InitRebuild ==
    /\ config \in RebuildConfigs
    /\ digest_secret \in SecretSet
    /\ digest_opaque \in OpaqueSet
    /\ user_mapping = DAVAuth_init(<<>>, <<>>, config).user_mapping
    /\ credential_user_mapping =
           DAVAuth_init(<<>>, <<>>, config).credential_user_mapping
    /\ pc = "idle"
    /\ request = NoRequest
    /\ auth = NoAuth
    /\ response = NoResponse
    /\ sender = NoSender
    /\ files = NoFile
    /\ sent = <<>>
    /\ call = NoCall
    /\ result = None
    /\ history = NoHistory
    /\ hide = DAVHideFileInDir_init(config)
    /\ tasks = <<>>

\* DAVAuth(config) once more in the same process: __init__ writes to the maps
\* of the classes DAVAuth and HTTPBasicAuth as the objects before left them.
\* The new object has answered no request.
BuildDAVAuth ==
    /\ pc = "idle"
    /\ \E cfg \in RebuildConfigs :
       \E built \in {DAVAuth_init(user_mapping, credential_user_mapping, cfg)} :
           /\ config' = cfg
           /\ user_mapping' = built.user_mapping
           /\ credential_user_mapping' = built.credential_user_mapping
    /\ digest_secret' \in SecretSet
    /\ request' = NoRequest
    /\ auth' = NoAuth
    /\ UNCHANGED <<digest_opaque, hidevars, fnvars, history, pc, response,
                   sender, files, sent>>

\* a request with an Authorization header goes through pick_out_user of the
\* DAVAuth built last
PickOutRebuilt ==
    /\ pc = "idle"
    /\ \E h \in RebuildHeaders :
       \E req \in {[NoRequest EXCEPT
                       !.method = GET,
                       !.headers = <<<<h_authorization, h>>>>,
                       !.client_user_agent = <<99, 117, 114, 108>>]} :
       \E r \in {pick_out_user(req)} :
           /\ auth' = r
           /\ request' = [req EXCEPT
                             !.authorization_method = r.authorization_method,
                             !.authorization_info = r.authorization_info]
    /\ UNCHANGED <<authvars, hidevars, fnvars, history, pc, response, sender,
                   files, sent>>

NextRebuild == BuildDAVAuth \/ PickOutRebuilt

SpecRebuild == InitRebuild /\ [][NextRebuild]_vars

----------------------------------------------------------------------------
(* The properties *)

\* pick_out_user has just been called for the request at hand (request and
\* auth stay as they are until the request is over)
Picked == pc \in {"auth_raised", "deny", "handle"}

\* the Authorization header of the request at hand (None when it has none)
AuthorizationOf(req) == DictGet(req.headers, h_authorization)

\* the request at hand with another Authorization header, as it arrives
RequestWith(h) ==
    [request EXCEPT !.headers = <<<<h_authorization, h>>>>,
                    !.authorization_method = <<>>,
                    !.authorization_info = <<>>]

IsStart(m) == m.type = "http.response.start"

IsBodyMessage(m) ==
    m.type \in {"http.response.body", "http.response.zerocopysend"}

\* C1: every send_in_one_call passes to request.send exactly one
\* http.response.start, before any body message, then one or more body
\* messages of which the last and only the last has more_body = false.
C1_StartThenBodies ==
    /\ \A i \in 1..Len(sent) : IsStart(sent[i]) <=> (i = 1)
    /\ \A i \in 2..Len(sent) : IsBodyMessage(sent[i])
    /\ \A i \in 2..(Len(sent) - 1) : sent[i].more_body
    /\ pc \in {"done", "send_raised"} =>
           /\ Len(sent) >= 2
           /\ ~sent[Len(sent)].more_body

\* the credential string of a user, as a Basic client encodes it
CredentialOf(user) == ClientBasicToken(user)

LastIndex(S) == CHOOSE i \in S : \A j \in S : j <= i

IsBasicHeader(h) ==
    /\ h # None
    /\ Len(h) >= 6
    /\ Lower(SubSeq(h, 1, 5)) = <<98, 97, 115, 105, 99>>
    /\ h[6] = 32

\* C2 as stated: the header built from any loaded account's username and
\* password returns that account's user with an empty reason, and a token
\* that differs from every stored credential returns (no user, 'no
\* permission').
C2_EveryAccount ==
    (Picked /\ IsBasicHeader(AuthorizationOf(request))) =>
        LET token == Drop(AuthorizationOf(request), 6)
        IN  /\ \A i \in 1..Len(config.account_mapping) :
                   token = CredentialOf(config.account_mapping[i]) =>
                       /\ auth.user = config.account_mapping[i]
                       /\ auth.reason = <<>>
            /\ token \notin DictKeys(credential_user_mapping) =>
                   /\ auth.user = NoUser
                   /\ auth.reason = reason_no_permission

\* C2, amended: the header built from the username and password of a user
\* held in the user map returns, with an empty reason, the last user in map
\* order whose "username:password" text is the same (that user itself when
\* no later user shares the text); a token that differs from every stored
\* credential returns (no user, 'no permission').
C2_LastUserOfCredential ==
    (Picked /\ IsBasicHeader(AuthorizationOf(request))) =>
        LET token == Drop(AuthorizationOf(request), 6)
            same == {i \in 1..Len(user_mapping) :
                        CredentialOf(user_mapping[i][2]) = token}
        IN  /\ same # {} =>
                   /\ auth.user = user_mapping[LastIndex(same)][2]
                   /\ auth.reason = <<>>
                   /\ ~auth.raised
            /\ token \notin DictKeys(credential_user_mapping) =>
                   /\ auth.user = NoUser
                   /\ auth.reason = reason_no_permission
                   /\ ~auth.raised

\* the credential of a user is presented where a later user of the map has
\* the same credential text, and the later user is returned
C2_Witness ==
    /\ pc = "handle"
    /\ IsBasicHeader(AuthorizationOf(request))
    /\ \E i, j \in 1..Len(user_mapping) :
           /\ i < j
           /\ CredentialOf(user_mapping[i][2]) = CredentialOf(user_mapping[j][2])
           /\ Drop(AuthorizationOf(request), 6) = CredentialOf(user_mapping[i][2])
           /\ auth.user = user_mapping[j][2]

IsDigestHeader(h) ==
    /\ h # None
    /\ Len(h) >= 7
    /\ Lower(SubSeq(h, 1, 6)) = <<100, 105, 103, 101, 115, 116>>
    /\ h[7] = 32

\* the fields of a Digest header whose value decodes
ParsedFields(h) == authorization_str_parser_to_data(Utf8Decode(Drop(h, 7)))

TenKeys ==
    {k_username, k_realm, k_nonce, k_uri, k_response, k_algorithm, k_opaque,
     k_qop, k_nc, k_cnonce}

\* the digest a client holding this user's password computes from the fields
RecomputedDigest(user, method, data) ==
    IF DictGet(data, k_qop) = v_auth
    THEN ClientResponseAuth(user, method, DictGet(data, k_nonce),
                            DictGet(data, k_nc), DictGet(data, k_cnonce),
                            DictGet(data, k_qop), DictGet(data, k_uri))
    ELSE ClientResponseLegacy(user, method, DictGet(data, k_nonce),
                              DictGet(data, k_uri))

\* the three conditions of C3 on a Digest header
DigestAcceptable(h, method) ==
    /\ Utf8Valid(Drop(h, 7))
    /\ LET data == ParsedFields(h)
       IN  /\ TenKeys \subseteq DictKeys(data)
           /\ DictHas(user_mapping, DictGet(data, k_username))
           /\ RecomputedDigest(DictGet(user_mapping, DictGet(data, k_username)),
                               method, data)
                  = DictGet(data, k_response)

\* C3: for a Digest header, pick_out_user returns a user if and only if the
\* parsed fields hold all ten required keys, the parsed username is a key of
\* the user map, and the digest recomputed from that user's password, the
\* method and the fields equals the parsed response; a header that lacks one
\* required key gives (no user, 'no permission').
C3_DigestIff ==
    (Picked /\ IsDigestHeader(AuthorizationOf(request))) =>
        LET h == AuthorizationOf(request)
        IN  /\ (auth.user # NoUser) <=> DigestAcceptable(h, request.method)
            /\ auth.user # NoUser =>
                   /\ auth.user = DictGet(user_mapping,
                                          DictGet(ParsedFields(h), k_username))
                   /\ auth.reason = <<>>
            /\ (Utf8Valid(Drop(h, 7))
                /\ ~(TenKeys \subseteq DictKeys(ParsedFields(h)))) =>
                   /\ auth.user = NoUser
                   /\ auth.reason = reason_no_permission

\* a header that is correct for a user of the map but for one missing key
\* has been refused
C3_Witness ==
    /\ pc = "deny"
    /\ IsDigestHeader(AuthorizationOf(request))
    /\ Utf8Valid(Drop(AuthorizationOf(request), 7))
    /\ LET data == ParsedFields(AuthorizationOf(request))
       IN  /\ TenKeys \ DictKeys(data) = {k_opaque}
           /\ DictHas(user_mapping, DictGet(data, k_username))
           /\ RecomputedDigest(DictGet(user_mapping, DictGet(data, k_username)),
                               request.method, data)
                  = DictGet(data, k_response)
    /\ auth.reason = reason_no_permission

\* C4: pick_out_user never raises, whatever the headers: it returns (user, '')
\* or (no user, reason), reason being 'miss header: authorization' exactly
\* when the header is absent, 'Unknown authentication method' exactly when it
\* is present and starts with neither 'basic ' nor 'digest ', and 'no
\* permission' otherwise.
C4_NeverRaises ==
    Picked =>
        LET h == AuthorizationOf(request)
        IN  /\ ~auth.raised
            /\ pc # "auth_raised"
            /\ \/ auth.user # NoUser /\ auth.reason = <<>>
               \/ /\ auth.user = NoUser
                  /\ auth.reason =
                         IF h = None THEN reason_miss_header
                         ELSE IF ~IsBasicHeader(h) /\ ~IsDigestHeader(h)
                         THEN reason_unknown_method
                         ELSE reason_no_permission

\* the scheme word of the challenge of a response
ChallengeScheme(resp) ==
    LET v == DictGet(resp.headers, h_WWW_Authenticate)
    IN  Take(v, Find(v, 32) - 1)

\* what the client sees of pick_out_user followed by create_response_401
Outcome(r, req, resp) ==
    [user |-> r.user, reason |-> r.reason, status |-> resp.status,
     body |-> resp._content, scheme |-> ChallengeScheme(resp),
     authorization_info |-> req.authorization_info]

\* the outcome of the request at hand had it carried header h
OutcomeWith(h, uuid) ==
    LET r == pick_out_user(RequestWith(h))
        req == [RequestWith(h) EXCEPT
                   !.authorization_method = r.authorization_method,
                   !.authorization_info = r.authorization_info]
    IN  Outcome(r, req, create_response_401(req, r.reason, uuid))

\* header h fails by returning no user
Fails(h) ==
    LET r == pick_out_user(RequestWith(h))
    IN  ~r.raised /\ r.user = NoUser

\* requests that fail while naming a user: Basic and Digest headers of a
\* configured username with a wrong password, and of an unknown username
EnumerationProbes(method) ==
    {<<66, 97, 115, 105, 99, 32>> \o ClientBasicToken(id) : id \in {al_xx, zz_pw}}
    \cup {p_Digest \o RenderFields(GoodAuthFields(id, method, c_cnonce)) :
             id \in {al_xx, zz_pw}}

\* C5: a failing request and a failing request of the same scheme that names
\* an unknown username, or a configured username with a wrong password, have
\* the same outcome after pick_out_user and create_response_401: no user,
\* reason 'no permission', status 401, the same body, the same challenge
\* scheme, and authorization_info left unset.
C5_NoEnumeration ==
    (pc = "send" /\ auth.user = NoUser
     /\ AuthorizationOf(request) # None
     /\ (IsBasicHeader(AuthorizationOf(request))
         \/ IsDigestHeader(AuthorizationOf(request)))) =>
        /\ auth.reason = reason_no_permission
        /\ response.status = 401
        /\ request.authorization_info = <<>>
        /\ \A h \in EnumerationProbes(request.method) :
               (IsBasicHeader(h) = IsBasicHeader(AuthorizationOf(request))) =>
                   /\ Fails(h)
                   /\ \A uuid \in UuidSet :
                          OutcomeWith(h, uuid) = Outcome(auth, request, response)

\* a Digest header naming a user that is not configured has been answered
\* with 401, and a header naming a configured user with a wrong digest fails
C5_Witness ==
    /\ pc = "send"
    /\ auth.user = NoUser
    /\ IsDigestHeader(AuthorizationOf(request))
    /\ TenKeys \subseteq DictKeys(ParsedFields(AuthorizationOf(request)))
    /\ ~DictHas(user_mapping,
                DictGet(ParsedFields(AuthorizationOf(request)), k_username))
    /\ \E h \in EnumerationProbes(request.method) :
           /\ IsDigestHeader(h)
           /\ DictHas(user_mapping, DictGet(ParsedFields(h), k_username))
           /\ Fails(h)

\* C6: build_request_digest returns MD5(HA1:nonce:nc:cnonce:qop:HA2) when the
\* parsed qop is exactly 'auth', and MD5(HA1:nonce:HA2) for every other qop
\* and for an absent qop, HA1 = MD5(username:realm:password) and HA2 =
\* MD5(method:uri); the second form does not depend on nc or cnonce.
C6_RequestDigest ==
    (call.fn = "build_request_digest" /\ result # None) =>
        LET d == call.digest_auth_data
        IN  IF DictGet(d, k_qop) = v_auth
            THEN (DictHas(d, k_nc) /\ DictHas(d, k_cnonce)) =>
                     result = ClientResponseAuth(
                                  call.user, call.method, DictGet(d, k_nonce),
                                  DictGet(d, k_nc), DictGet(d, k_cnonce),
                                  v_auth, DictGet(d, k_uri))
            ELSE /\ result = ClientResponseLegacy(call.user, call.method,
                                                  DictGet(d, k_nonce),
                                                  DictGet(d, k_uri))
                 /\ \A nc \in {None, c_nc, c_nc2},
                       cn \in {None, c_cnonce, c_cnonce_utf8} :
                        build_request_digest(
                            call.method, call.user,
                            DigestData(DictGet(d, k_nonce), DictGet(d, k_uri),
                                       DictGet(d, k_qop), nc, cn)) = result

\* the function has been applied to fields that have an nc but no qop
C6_Witness ==
    /\ call.fn = "build_request_digest"
    /\ result # None
    /\ result # TypeError
    /\ ~DictHas(call.digest_auth_data, k_qop)
    /\ DictHas(call.digest_auth_data, k_nc)

\* rspauth=" and the closing quote
RspauthOpening == k_rspauth \o <<61, 34>>

\* a Digest header has been accepted
DigestSucceeded ==
    /\ Picked
    /\ auth.user # NoUser
    /\ auth.authorization_method = m_Digest

\* C7: the rspauth of make_response_authentication_info_string is
\* MD5(HA1:nonce:nc:cnonce:qop:HA2) with HA2 from the request's method and the
\* parsed uri; after a successful Digest authentication with qop = 'auth' the
\* rspauth in request.authorization_info is the response the client sent.
C7_Rspauth ==
    DigestSucceeded =>
        LET d == ParsedFields(AuthorizationOf(request))
            rspauth == ClientResponseAuth(
                           auth.user, request.method, DictGet(d, k_nonce),
                           DictGet(d, k_nc), DictGet(d, k_cnonce),
                           DictGet(d, k_qop), DictGet(d, k_uri))
        IN  /\ IsPrefix(Utf8Encode(RspauthOpening \o rspauth \o <<34>>),
                        request.authorization_info)
            /\ DictGet(d, k_qop) = v_auth =>
                   IsPrefix(Utf8Encode(RspauthOpening
                                       \o DictGet(d, k_response) \o <<34>>),
                            request.authorization_info)

\* a Digest header with qop=auth has been accepted and the info is stored
C7_Witness ==
    /\ DigestSucceeded
    /\ DictGet(ParsedFields(AuthorizationOf(request)), k_qop) = v_auth
    /\ IsPrefix(Utf8Encode(RspauthOpening), request.authorization_info)

\* the parameters of an info string: the pieces between commas, without the
\* spaces around them
InfoParameters(info) ==
    LET pieces == Split(Utf8Decode(info), 44)
    IN  [i \in 1..Len(pieces) |-> Strip(pieces[i], {32})]

ParameterName(f) == SubSeq(f, 1, Find(f, 61) - 1)

ParameterValue(f) == Drop(f, Find(f, 61))

IsQuoted(v) == Len(v) >= 2 /\ v[1] = 34 /\ v[Len(v)] = 34

\* C8: the authentication-info string built after a successful Digest
\* authentication lists rspauth, cnonce, qop, nc in this order, rspauth and
\* cnonce as quoted strings, qop and nc without quotes.
C8_InfoOrderAndQuoting ==
    DigestSucceeded =>
        LET f == InfoParameters(request.authorization_info)
        IN  /\ Len(f) = 4
            /\ [i \in 1..4 |-> ParameterName(f[i])]
                   = <<k_rspauth, k_cnonce, k_qop, k_nc>>
            /\ IsQuoted(ParameterValue(f[1]))
            /\ IsQuoted(ParameterValue(f[2]))
            /\ ~IsQuoted(ParameterValue(f[3]))
            /\ ~IsQuoted(ParameterValue(f[4]))

\* C9: request.authorization_info is set exactly by a successful Digest
\* authentication; every http.response.start passed to request.send holds an
\* Authentication-Info header equal to it when it is set, and no
\* Authentication-Info header when it is not, whatever the strategy.
C9_AuthenticationInfoHeader ==
    /\ pc \notin {"idle", "auth"} =>
           (Truthy(request.authorization_info)
                <=> (auth.user # NoUser /\ auth.authorization_method = m_Digest))
    /\ \A i \in 1..Len(sent) :
           IsStart(sent[i]) =>
               IF Truthy(request.authorization_info)
               THEN /\ Cardinality({j \in 1..Len(sent[i].headers) :
                           sent[i].headers[j][1] = h_Authentication_Info}) = 1
                    /\ DictGet(sent[i].headers, h_Authentication_Info)
                           = request.authorization_info
               ELSE ~DictHas(sent[i].headers, h_Authentication_Info)

\* a gzip response to a Digest-authenticated request has sent its start
\* message with the header
C9_Witness ==
    /\ response.compression_method = "GZIP"
    /\ auth.authorization_method = m_Digest
    /\ Truthy(request.authorization_info)
    /\ Len(sent) > 0
    /\ IsStart(sent[1])
    /\ DictGet(sent[1].headers, h_Authentication_Info)
           = request.authorization_info

\* create_response_401 has just answered the request at hand
Answered401 == pc = "send" /\ auth.user = NoUser

\* C10: create_response_401 returns status 401 with exactly one
\* WWW-Authenticate header; with Digest enabled the challenge is Digest unless
\* the user-agent prefix-matches disable_rule, with Digest disabled it is
\* Basic unless the user-agent prefix-matches enable_rule; the body is the
\* HTML template holding the failure message.
C10_Challenge ==
    Answered401 =>
        /\ response.status = 401
        /\ Cardinality({i \in 1..Len(response.headers) :
               response.headers[i][1] = h_WWW_Authenticate}) = 1
        /\ ChallengeScheme(response) =
               IF config.http_digest_auth.enable
               THEN (IF re_match(config.http_digest_auth.disable_rule,
                                 request.client_user_agent)
                     THEN m_Basic ELSE m_Digest)
               ELSE (IF re_match(config.http_digest_auth.enable_rule,
                                 request.client_user_agent)
                     THEN m_Digest ELSE m_Basic)
        /\ ConcatChunks(response._content.chunks) = MESSAGE_401(auth.reason)

\* Digest is disabled, the user-agent matches enable_rule and the challenge
\* is Digest
C10_Witness ==
    /\ Answered401
    /\ ~config.http_digest_auth.enable
    /\ re_match(config.http_digest_auth.enable_rule, request.client_user_agent)
    /\ ChallengeScheme(response) = m_Digest

\* the nonce a Digest header carries
NonceOf(h) ==
    DictGet(authorization_str_parser_to_data(Utf8Decode(Drop(h, 7))), k_nonce)

\* C11: Digest verification keeps no state.  Every request served with a
\* Digest Authorization header, whatever was served before it and whichever
\* nonces the server had issued by then, is accepted exactly when recomputing
\* the digest from the header's own fields, the request's method and the
\* user's password gives the header's response.  So of two requests with the
\* same method and the same header either both are accepted or neither is: a
\* header accepted once is accepted again (replay), and the verdict does not
\* depend on the nonces the server has issued.
C11_ReplayAccepted ==
    /\ \A e \in history.seen :
           IsDigestHeader(e.authorization) =>
               (e.accepted <=> DigestAcceptable(e.authorization, e.method))
    /\ \A e1, e2 \in history.seen :
           (/\ IsDigestHeader(e1.authorization)
            /\ e1.method = e2.method
            /\ e1.authorization = e2.authorization)
           => e1.accepted = e2.accepted

\* a Digest header whose recomputed digest matches, accepted before the server
\* had issued its nonce (or any nonce), and accepted again, from another user
\* agent, after the server had issued others
C11_Witness ==
    \E e1, e2 \in history.seen :
        /\ IsDigestHeader(e1.authorization)
        /\ DigestAcceptable(e1.authorization, e1.method)
        /\ e1.method = e2.method
        /\ e1.authorization = e2.authorization
        /\ e1.client_user_agent # e2.client_user_agent
        /\ e1.accepted /\ e2.accepted
        /\ e1.issued = {}
        /\ e2.issued # {}
        /\ NonceOf(e1.authorization) \notin e2.issued

\* send_in_one_call has been called for the response at hand and has got past
\* its choice of method
Sending ==
    pc \in {"direct", "sendfile", "fake_sendfile", "fake_sendfile_send",
            "compress", "compress_body", "done", "send_raised"}

\* the body messages sent so far are the first chunks of the source, in order,
\* each with its bytes and its more_body
BodiesAreSourceChunks ==
    /\ Len(sent) - 1 <= Len(response._content.chunks)
    /\ \A i \in 1..(Len(sent) - 1) :
           sent[i + 1] = BodyMessage(response._content.chunks[i][1],
                                     response._content.chunks[i][2])

\* the length of the response at hand is known and below the threshold
KnownSmall ==
    response.content_length # NoneInt /\ response.content_length < MinimumLength

\* C12: a response whose content length is known and below the minimum length
\* is never compressed: no compression sender is made for it, its start message
\* has no Content-Encoding header, and the body messages of bytes and stream
\* content are the source chunks, unchanged.
C12_SmallNeverCompressed ==
    (Sending /\ KnownSmall) =>
        /\ sender.name = <<>>
        /\ response.compression_method = "UNSET"
        /\ Len(sent) >= 1
        /\ IsStart(sent[1])
        /\ ~DictHas(sent[1].headers, h_Content_Encoding)
        /\ response._content.kind = "generator" =>
               /\ BodiesAreSourceChunks
               /\ pc = "done" => Len(sent) - 1 = Len(response._content.chunks)

\* a small text/html response with a body, all sent, to a client whose gzip
\* the configuration would serve
C12_Witness ==
    /\ pc = "done"
    /\ KnownSmall
    /\ response.content_length > 0
    /\ DictGet(response.headers, h_Content_Type) = v_text_html
    /\ request.accept_encoding.gzip /\ config.compression.enable_gzip
    /\ Len(sent) >= 2
    /\ sent[2].body # <<>>

\* the Content-Type of the response at hand as text ("" when it has none)
ContentTypeOf(resp) == Utf8Decode(DictGetOr(resp.headers, h_Content_Type, <<>>))

\* "application/xml", "application/json", "text/": what the built-in rule accepts
\* at the start of a content type
BuiltInPrefixes ==
    {<<97, 112, 112, 108, 105, 99, 97, 116, 105, 111, 110, 47, 120, 109, 108>>,
     <<97, 112, 112, 108, 105, 99, 97, 116, 105, 111, 110, 47, 106, 115, 111,
       110>>,
     <<116, 101, 120, 116, 47>>}

Compressible(content_type, cfg) ==
    \/ \E p \in BuiltInPrefixes : IsPrefix(p, content_type)
    \/ /\ cfg.compression.content_type_user_rule # <<>>
       /\ re_match(cfg.compression.content_type_user_rule, content_type)

\* the method the claim gives for a content type, a client and a configuration
ExpectedMethod(content_type, accept_encoding, cfg) ==
    IF ~Compressible(content_type, cfg) THEN "NONE"
    ELSE IF cfg.brotli /\ cfg.compression.enable_brotli /\ accept_encoding.br
    THEN "BROTLI"
    ELSE IF cfg.compression.enable_gzip /\ accept_encoding.gzip
    THEN "GZIP"
    ELSE "NONE"

\* C13: for a response whose length is unknown or at least the minimum length,
\* the method send_in_one_call chooses is the one given by the content type,
\* the accepted encodings, the configuration and the availability of brotli:
\* BROTLI, else GZIP, else NONE for a compressible type, NONE otherwise.  It is
\* fixed before any message is sent, the sender made and the Content-Encoding
\* of the start message agree with it, and without the brotli library the
\* method is never BROTLI.
C13_MethodChosen ==
    (Sending /\ ~KnownSmall) =>
        LET method == ExpectedMethod(ContentTypeOf(response),
                                     request.accept_encoding, config)
        IN  /\ response.compression_method = method
            /\ sender.name = (IF method = "BROTLI" THEN v_br
                              ELSE IF method = "GZIP" THEN v_gzip ELSE <<>>)
            /\ ~config.brotli => response.compression_method # "BROTLI"
            /\ Len(sent) >= 1 =>
                   DictGet(sent[1].headers, h_Content_Encoding) =
                       (IF method = "BROTLI" THEN v_br
                        ELSE IF method = "GZIP" THEN v_gzip ELSE None)

\* an image/png response, compressible by the user rule alone, for a client
\* that accepts br and gzip, under a configuration with brotli enabled and the
\* library missing: sent with gzip
C13_Witness ==
    /\ pc = "done"
    /\ ~KnownSmall
    /\ ContentTypeOf(response) = v_image_png
    /\ ~config.brotli /\ config.compression.enable_brotli
    /\ request.accept_encoding.br
    /\ response.compression_method = "GZIP"
    /\ Len(sent) >= 2

\* a compression sender is at work on the response at hand
Compressing ==
    pc \in {"compress", "compress_body", "done"} /\ sender.name # <<>>

\* the arguments from which the response at hand can have been constructed
ConstructedFrom ==
    {a \in ResponseSet :
        [DAVResponse_init(200, a.headers, a.response_type, a.content,
                          a.content_length, a.content_range_start)
            EXCEPT !.headers = <<>>]
        = [response EXCEPT !.headers = <<>>, !.compression_method = "UNSET"]}

\* C14: in a compressed send nothing is sent before the first chunk has been
\* compressed; the start message then comes first and names the codec in
\* Content-Encoding.  When the first chunk is the last one, the start message
\* declares as Content-Length the length of the one compressed body that
\* follows it; when more chunks follow, the start message has no
\* Content-Length header, whatever the headers of the response were.
C14_CompressedStart ==
    Compressing =>
        LET chunks == response._content.chunks
        IN  /\ sender.first => sent = <<>>
            /\ Len(sent) >= 1 =>
                   /\ ~sender.first
                   /\ IsPrefix(chunks[1][1], sender.consumed \o sender.pending)
                   /\ IsStart(sent[1])
                   /\ DictGet(sent[1].headers, h_Content_Encoding) = sender.name
                   /\ IF chunks[1][2]
                      THEN ~DictHas(sent[1].headers, h_Content_Length)
                      ELSE /\ DictGet(sent[1].headers, h_Content_Length) =
                                  Utf8Encode(IntToStr(Len(sender.body)))
                           /\ Len(sent) >= 2 =>
                                  /\ Len(sent) = 2
                                  /\ sent[2].body = sender.body
                                  /\ ~sent[2].more_body

\* a stream of two chunks, constructed with a Content-Length header of the
\* caller's, sent compressed to the end: its start message has no
\* Content-Length
C14_Witness ==
    /\ pc = "done"
    /\ Compressing
    /\ Len(sent) = 3
    /\ response._content.chunks[1][2]
    /\ ConstructedFrom # {}
    /\ \A a \in ConstructedFrom : DictHas(a.headers, h_Content_Length)
    /\ ~DictHas(sent[1].headers, h_Content_Length)

\* _send_in_direct is at work on bytes or stream content
DirectSend ==
    /\ pc \in {"direct", "done"}
    /\ sender.name = <<>>
    /\ response._content.kind = "generator"
    /\ Len(sent) >= 1

\* C15 as it is stated: in a direct send of bytes or stream content the start
\* message has a Content-Length header if and only if the content length of
\* the response is known, and the body messages are the source chunks.
C15_ContentLengthIffKnown ==
    DirectSend =>
        /\ DictHas(sent[1].headers, h_Content_Length)
               <=> response.content_length # NoneInt
        /\ BodiesAreSourceChunks

\* C15, amended: in a direct send of bytes or stream content the start message
\* comes first; when the content length is known its Content-Length is that
\* length; when it is unknown _send_in_direct adds none, so that a
\* Content-Length in the start message is the one the response was constructed
\* with; and the body messages are the source chunks, one message per pair, in
\* order, with the same bytes and the same more_body.
C15_DirectSend ==
    DirectSend =>
        /\ IsStart(sent[1])
        /\ sent[1].headers = response.headers
        /\ response.content_length # NoneInt =>
               DictGet(sent[1].headers, h_Content_Length) =
                   Utf8Encode(IntToStr(response.content_length))
        /\ (response.content_length = NoneInt
            /\ DictHas(sent[1].headers, h_Content_Length)) =>
               \E a \in ConstructedFrom :
                   DictGet(a.headers, h_Content_Length) =
                       DictGet(sent[1].headers, h_Content_Length)
        /\ BodiesAreSourceChunks
        /\ pc = "done" => Len(sent) - 1 = Len(response._content.chunks)

\* a stream of unknown length, constructed with a Content-Length header, sent
\* directly to the end
C15_Witness ==
    /\ pc = "done"
    /\ DirectSend
    /\ response.content_length = NoneInt
    /\ DictHas(sent[1].headers, h_Content_Length)
    /\ Len(sent) >= 2

\* the number of body bytes in messages lo..hi of sent
RECURSIVE BodyBytes(_, _)
BodyBytes(lo, hi) ==
    IF lo > hi THEN 0 ELSE Len(sent[lo].body) + BodyBytes(lo + 1, hi)

\* C16: when a response has been sent to the end and its start message
\* declares Content-Length n, the body messages that followed it carry n bytes
\* in all (a zerocopysend message carries no bytes itself and is left out).
C16_DeclaredIsTransmitted ==
    (/\ pc = "done"
     /\ Len(sent) >= 1
     /\ DictHas(sent[1].headers, h_Content_Length)
     /\ \A i \in 2..Len(sent) : sent[i].type = "http.response.body") =>
        DictGet(sent[1].headers, h_Content_Length) =
            Utf8Encode(IntToStr(BodyBytes(2, Len(sent))))

\* the constructor has returned and the content has not been assigned again
Constructed == call.fn = "DAVResponse" /\ result # NoResponse /\ ~call.assigned

\* C17: a DAVResponse constructed with both a content_length L and a
\* content_range_start S (0 included) has the header Content-Range
\* "bytes S-L/L" and the content length L - S; constructed without one of
\* them (and with no Content-Range among the caller's headers) it has no
\* Content-Range header, and its content length is L when L is given and the
\* length set by the content otherwise.
C17_ContentRange ==
    Constructed =>
        LET L == call.content_length
            S == call.content_range_start
        IN  IF L # NoneInt /\ S # NoneInt
            THEN /\ DictGet(result.headers, h_Content_Range) =
                        Utf8Encode(<<98, 121, 116, 101, 115, 32>> \o IntToStr(S)
                                   \o <<45>> \o IntToStr(L) \o <<47>>
                                   \o IntToStr(L))
                 /\ result.content_length = L - S
                 /\ result.content_range
                 /\ result.content_range_start = S
            ELSE /\ ~DictHas(result.headers, h_Content_Range)
                 /\ ~result.content_range
                 /\ result.content_length =
                        (IF L # NoneInt THEN L
                         ELSE IF call.content.kind = "bytes"
                         THEN Len(call.content.value) ELSE NoneInt)

\* a response constructed with a length and with the start 0
C17_Witness ==
    /\ Constructed
    /\ call.content_length = MinimumLength + 2
    /\ call.content_range_start = 0
    /\ DictHas(result.headers, h_Content_Range)
    /\ result.content_length = MinimumLength + 2

\* _send_in_direct is at work on zero-copy content
ZeroCopyDirect ==
    /\ pc \in {"sendfile", "fake_sendfile", "fake_sendfile_send", "done"}
    /\ sender.name = <<>>
    /\ response._content.kind = "zerocopy"

\* C18: zero-copy content sent directly.  The start message comes first.  When
\* the scope offers http.response.zerocopysend, one zerocopysend message
\* follows and ends the response: it has the file, the offset and the count
\* exactly when they are given (an absent key is the value None here), and
\* more_body false.  When the scope does not offer it, every message after the
\* start is an ordinary body message, there is at least one at the end, and
\* the send does not end with an exception.
C18_ZeroCopyOrFallback ==
    ZeroCopyDirect =>
        /\ Len(sent) >= 1
        /\ IsStart(sent[1])
        /\ IF request.zerocopysend
           THEN /\ pc \notin {"fake_sendfile", "fake_sendfile_send"}
                /\ Len(sent) = (IF pc = "done" THEN 2 ELSE 1)
                /\ pc = "done" =>
                       /\ sent[2].type = "http.response.zerocopysend"
                       /\ sent[2].file = response._content.file
                       /\ sent[2].offset = response._content.offset
                       /\ sent[2].count = response._content.count
                       /\ ~sent[2].more_body
           ELSE /\ \A i \in 2..Len(sent) : sent[i].type = "http.response.body"
                /\ pc = "done" => Len(sent) >= 2 /\ ~sent[Len(sent)].more_body

\* a file sent with a count and no offset through the extension of the scope
C18_Witness ==
    /\ pc = "done"
    /\ ZeroCopyDirect
    /\ request.zerocopysend
    /\ response._content.offset = NoneInt
    /\ response._content.count # NoneInt
    /\ sent[2].type = "http.response.zerocopysend"
    /\ sent[2].offset = NoneInt

\* the bytes of the file from the place fake_sendfile starts at
FromOffset ==
    Drop(files.content,
         IF response._content.offset # NoneInt THEN response._content.offset
         ELSE 0)

\* what fake_sendfile has to deliver: the bytes from the offset on, count of
\* them when a count is given and the file has as many
ToDeliver ==
    IF response._content.count = NoneInt THEN FromOffset
    ELSE Take(FromOffset, response._content.count)

\* the bytes of the body messages sent so far
RECURSIVE SentBody(_)
SentBody(i) == IF i < 2 THEN <<>> ELSE SentBody(i - 1) \o sent[i].body

\* the number of passes fake_sendfile makes
Passes ==
    IF response._content.count = NoneInt
    THEN Len(FromOffset) \div BlockSize + 1
    ELSE IF response._content.count = 0 THEN 1
    ELSE (response._content.count + BlockSize - 1) \div BlockSize

\* the messages of fake_sendfile so far (and the block read and not yet sent,
\* between the two awaits of a pass): body messages of at most a block,
\* which are the bytes to deliver in order, none of them the last before the
\* end, and at the end one last message after the passes that the count (or
\* the file) asks for
C19_Shape ==
    pc \in {"fake_sendfile", "fake_sendfile_send", "done"} =>
        /\ \A i \in 2..Len(sent) :
               /\ sent[i].type = "http.response.body"
               /\ Len(sent[i].body) <= BlockSize
               /\ sent[i].more_body <=> (pc # "done" \/ i < Len(sent))
        /\ IsPrefix(SentBody(Len(sent)), ToDeliver)
        /\ Len(sent) - 1 <= Passes
        /\ pc = "fake_sendfile_send" =>
               /\ Len(sender.body) <= BlockSize
               /\ IsPrefix(SentBody(Len(sent)) \o sender.body, ToDeliver)
               /\ Len(sent) - 1 < Passes
        /\ pc = "done" =>
               /\ Len(sent) - 1 = Passes
               /\ SentBody(Len(sent)) = ToDeliver
               /\ response._content.count # NoneInt =>
                      sender.here = response._content.count

\* C19: the manual fallback terminates for every file size, offset and count.
\* It starts at the offset, reads at most a block at a time and sends each
\* read as a body message, until it has asked for count bytes, or until a read
\* comes back short when the count is absent; what it has sent then is the
\* file from the offset on, up to count bytes; every body message but the last
\* has more_body true and the last has more_body false.
C19_FallbackTerminates ==
    /\ []C19_Shape
    /\ (pc = "sendfile") ~> (pc = "done")

\* fake_sendfile has ended on a file that is shorter than the count, after
\* more than one pass
C19_Witness ==
    /\ pc = "done"
    /\ response._content.count # NoneInt
    /\ Len(FromOffset) < response._content.count
    /\ Len(FromOffset) > 0
    /\ Len(sent) > 2
    /\ ~sent[Len(sent)].more_body

\* the content the response was last given, with no content_length argument
\* standing in for its length
ContentAssigned ==
    /\ call.fn = "DAVResponse"
    /\ result # NoResponse
    /\ call.assigned \/ call.content_length = NoneInt

\* C20: after content is assigned the response holds that one content, and its
\* content length follows the kind: the number of bytes for bytes, unknown for
\* a stream, and for a zero-copy file the count, or without a count the size
\* of the file from the offset on.
C20_LengthFollowsContent ==
    ContentAssigned =>
        LET value == call.value
        IN  /\ value.kind = "bytes" =>
                   /\ result.content_length = Len(value.value)
                   /\ ConcatChunks(result._content.chunks) = value.value
            /\ value.kind = "generator" =>
                   /\ result.content_length = NoneInt
                   /\ result._content = value
            /\ value.kind = "zerocopy" =>
                   /\ result._content = value
                   /\ result.content_length =
                          (IF value.count # NoneInt THEN value.count
                           ELSE Len(files.content)
                                - (IF value.offset # NoneInt THEN value.offset
                                   ELSE 0))

\* the calls of is_match_hide_file_in_dir that have returned
Returned == {t \in DOMAIN tasks : tasks[t].pc = "returned"}

\* the rule the claims resolve for a user agent: that of the first configured
\* pattern, in insertion order, that matches a prefix of ua; otherwise the
\* fallback; None when there is neither
ResolvedRule(ua) ==
    LET matching == {i \in 1..Len(hide._data_rules) :
                        re_match(hide._data_rules[i][1], ua)}
    IN  IF matching # {}
        THEN hide._data_rules[CHOOSE i \in matching :
                                  \A j \in matching : i <= j][2]
        ELSE hide._data_rules_basic

\* what a call without a cache answers
HiddenFor(ua, file_name) ==
    /\ config.hide_file_in_dir.enable
    /\ ResolvedRule(ua) # None
    /\ re_match(ResolvedRule(ua), file_name)

\* C21: is_match_hide_file_in_dir(ua, file_name) returns False when the filter
\* is disabled; when it is enabled it returns True exactly when a rule resolves
\* for ua (the first matching pattern's rule, else the fallback) and that rule
\* matches a prefix of file_name.
C21_HideResult ==
    \A t \in Returned :
        tasks[t].result = HiddenFor(tasks[t].ua, tasks[t].file_name)

\* "tmp1" is hidden for "WD/3" by the rule "^Th|tmp" of the pattern "^W", which
\* matches a prefix of it and not the whole name
C21_Witness ==
    \E t \in Returned :
        /\ tasks[t].result = TRUE
        /\ tasks[t].ua = <<87, 68, 47, 51>>
        /\ tasks[t].file_name = <<116, 109, 112, 49>>
        /\ tasks[t].rule = <<94, 84, 104, 124, 116, 109, 112>>

\* the default rules in force and the user's rules of the configuration
DefaultRules ==
    IF config.hide_file_in_dir.enable_default_rules
    THEN DEFAULT_HIDE_FILE_IN_DIR_RULES ELSE <<>>
UserRules == config.hide_file_in_dir.user_rules

\* the rule of a pattern before the fallback is merged in: "default|user" for a
\* pattern both have, otherwise the rule of the one that has it
RuleBeforeFallback(k) ==
    IF DictHas(DefaultRules, k) /\ DictHas(UserRules, k)
    THEN DictGet(DefaultRules, k) \o <<124>> \o DictGet(UserRules, k)
    ELSE IF DictHas(DefaultRules, k) THEN DictGet(DefaultRules, k)
         ELSE DictGet(UserRules, k)

ConfiguredPatterns == DictKeys(DefaultRules) \cup DictKeys(UserRules)

\* C22: once a DAVHideFileInDir is constructed, a pattern of both the default
\* and the user rules has the rule "default|user"; the rule under the empty
\* pattern is taken out of the rules keyed by user agent and kept as the
\* fallback; every remaining rule is "fallback|rule".  So a file name the
\* fallback alone hides is hidden for every user agent.
C22_RulesMerged ==
    hide.enable =>
        /\ DictKeys(hide._data_rules) = ConfiguredPatterns \ {<<>>}
        /\ Cardinality(DictKeys(hide._data_rules)) = Len(hide._data_rules)
        /\ IF <<>> \in ConfiguredPatterns
           THEN /\ hide._data_rules_basic = RuleBeforeFallback(<<>>)
                /\ \A k \in DictKeys(hide._data_rules) :
                       DictGet(hide._data_rules, k) =
                           hide._data_rules_basic \o <<124>>
                               \o RuleBeforeFallback(k)
           ELSE /\ hide._data_rules_basic = None
                /\ \A k \in DictKeys(hide._data_rules) :
                       DictGet(hide._data_rules, k) = RuleBeforeFallback(k)
        /\ \A ua \in HideUserAgents, file_name \in HideFileNames :
               (/\ hide._data_rules_basic # None
                /\ re_match(hide._data_rules_basic, file_name))
                   => HiddenFor(ua, file_name)

\* default and user rules both have "^WD" and "": the fallback is "^Thumbs|^~",
\* the rule of "^WD" is "^Thumbs|^~|^DS|^_|^tmp", and "Thumbs.db" has been
\* hidden for "WD/3"
C22_Witness ==
    /\ hide.enable
    /\ hide._data_rules_basic = <<94, 84, 104, 117, 109, 98, 115, 124, 94, 126>>
    /\ DictGet(hide._data_rules, <<94, 87, 68>>) =
           <<94, 84, 104, 117, 109, 98, 115, 124, 94, 126, 124,
             94, 68, 83, 124, 94, 95, 124, 94, 116, 109, 112>>
    /\ \E t \in Returned :
           /\ tasks[t].ua = <<87, 68, 47, 51>>
           /\ tasks[t].file_name = <<84, 104, 117, 109, 98, 115, 46, 100, 98>>
           /\ tasks[t].result = TRUE

\* a mapping none of whose keys and values has a comma or a quote character
NoCommaNoQuote(data) ==
    \A i \in 1..Len(data) : \A j \in 1..2 : \A n \in 1..Len(data[i][j]) :
        data[i][j][n] \notin {44, 34, 39}

\* two dicts are equal: the same keys with the same values
DictEqual(d1, d2) ==
    /\ DictKeys(d1) = DictKeys(d2)
    /\ \A k \in DictKeys(d1) : DictGet(d1, k) = DictGet(d2, k)

\* C23: for a mapping whose keys and values have no comma and no quote
\* character, parsing the string built from it gives the mapping back, and
\* building from the parsed mapping gives the same string.
C23_RoundTrip ==
    (call.fn = "round_trip" /\ call.step = "rebuilt"
         /\ NoCommaNoQuote(call.data))
        => /\ DictEqual(call.parsed, call.data)
           /\ call.rebuilt = call.built

\* the same for mappings whose keys have no "=" and whose keys and values
\* neither begin nor end with a space
Trimmed(s) == Len(s) > 0 => s[1] # 32 /\ s[Len(s)] # 32
C23_RoundTripTrimmed ==
    (call.fn = "round_trip" /\ call.step = "rebuilt"
         /\ NoCommaNoQuote(call.data)
         /\ \A i \in 1..Len(call.data) :
                /\ Find(call.data[i][1], 61) = 0
                /\ Trimmed(call.data[i][1]) /\ Trimmed(call.data[i][2]))
        => /\ DictEqual(call.parsed, call.data)
           /\ call.rebuilt = call.built

\* what a client makes of a stream that is not one of its codec
NotAStream == <<-4>>

\* the bits of the bytes of a deflate stream, in the order a decoder reads them
BytesToBits(b) ==
    [i \in 1..(8 * Len(b)) |->
        (b[(i - 1) \div 8 + 1] \div 2 ^ ((i - 1) % 8)) % 2]

\* the value of the nb bits from at on: a Huffman code (first bit the most
\* significant) and extra bits (first bit the least significant)
BitsValue(weight(_), lo, hi) ==
    IF lo > hi THEN 0
    ELSE IF lo = hi THEN weight(lo)
    ELSE IF lo + 1 = hi THEN weight(lo) + weight(hi)
    ELSE (weight(lo) + weight(lo + 1)) + (weight(lo + 2) + weight(lo + 3))
CodeValue(bits, at, nb) ==
    LET weight(k) == IF k <= nb THEN bits[at + k - 1] * 2 ^ (nb - k) ELSE 0
    IN  (BitsValue(weight, 1, 4) + BitsValue(weight, 5, 8))
        + (BitsValue(weight, 9, 12) + weight(13))
ExtraValue(bits, at, nb) ==
    LET weight(k) == IF k <= nb THEN bits[at + k - 1] * 2 ^ (k - 1) ELSE 0
    IN  (BitsValue(weight, 1, 4) + BitsValue(weight, 5, 8))
        + (BitsValue(weight, 9, 12) + weight(13))

\* the next symbol of a block with the fixed codes (RFC 1951, 3.2.6), and the
\* number of bits of its code; no symbol when the bits run out
FixedSymbol(bits, at) ==
    IF at + 6 > Len(bits) THEN <<-1, 0>>
    ELSE IF CodeValue(bits, at, 7) <= 23
    THEN <<256 + CodeValue(bits, at, 7), 7>>
    ELSE IF at + 7 > Len(bits) THEN <<-1, 0>>
    ELSE IF CodeValue(bits, at, 8) \in 48..191
    THEN <<CodeValue(bits, at, 8) - 48, 8>>
    ELSE IF CodeValue(bits, at, 8) \in 192..199
    THEN <<280 + CodeValue(bits, at, 8) - 192, 8>>
    ELSE IF at + 8 > Len(bits) THEN <<-1, 0>>
    ELSE <<144 + CodeValue(bits, at, 9) - 400, 9>>

\* the symbol whose code of codes comes next in the bits (codes[n + 1], the
\* code of symbol n, is empty for a symbol without one), and the number of
\* bits of the code; no symbol when no code comes next
TreeSymbol(codes, bits, at) ==
    LET next == {n \in 1..Len(codes) :
                    /\ codes[n] # <<>>
                    /\ at + Len(codes[n]) - 1 <= Len(bits)
                    /\ SubSeq(bits, at, at + Len(codes[n]) - 1) = codes[n]}
    IN  IF next = {} THEN <<-1, 0>>
        ELSE LET n == CHOOSE n \in next : TRUE IN <<n - 1, Len(codes[n])>>

\* the codes of a block for its code lengths (RFC 1951, 3.2.2)
CanonicalCodes(lengths) ==
    gen_codes(lengths,
              [b \in 1..16 |->
                  IF b = 1 THEN 0
                  ELSE Cardinality({n \in 1..Len(lengths) :
                                        lengths[n] = b - 1})] \o <<>>)

\* the codes of a block: those of its header, or the fixed ones
InflateTrees(fixed, l, d) == [fixed |-> fixed, l |-> l, d |-> d]

LiteralSymbol(trees, bits, at) ==
    IF trees.fixed THEN FixedSymbol(bits, at)
    ELSE TreeSymbol(trees.l, bits, at)
DistanceSymbol(trees, bits, at) ==
    IF ~trees.fixed THEN TreeSymbol(trees.d, bits, at)
    ELSE IF at + 4 > Len(bits) THEN <<-1, 0>>
    ELSE <<CodeValue(bits, at, 5), 5>>

\* a decoder of a block, at a symbol: the place in the bits, the bytes out so
\* far, and whether the end-of-block symbol has come, after which only the
\* padding of the last byte may follow
InflateState(at, out, ended, failed) ==
    [at |-> at, out |-> out, ended |-> ended, failed |-> failed]

InflateCopy(trees, bits, at, out, lc) ==
    IF at + LengthExtra[lc] - 1 > Len(bits)
    THEN InflateState(at, out, FALSE, TRUE)
    ELSE LET len == LengthBase[lc] + ExtraValue(bits, at, LengthExtra[lc])
             dsym == DistanceSymbol(trees, bits, at + LengthExtra[lc])
             dc == dsym[1] + 1
             dat == at + LengthExtra[lc] + dsym[2]
         IN  IF \/ dsym[1] < 0
                \/ dc > Len(DistBase)
                \/ dat + DistExtra[dc] - 1 > Len(bits)
             THEN InflateState(at, out, FALSE, TRUE)
             ELSE LET dist == DistBase[dc]
                                  + ExtraValue(bits, dat, DistExtra[dc])
                  IN  IF dist > Len(out)
                      THEN InflateState(at, out, FALSE, TRUE)
                      ELSE InflateState(
                               dat + DistExtra[dc],
                               out \o [k \in 1..len |->
                                          out[Len(out) - dist + 1
                                              + ((k - 1) % dist)]],
                               FALSE, FALSE)

InflateSymbol(trees, bits, st, sym) ==
    IF sym[1] < 0 \/ sym[1] > 285 THEN [st EXCEPT !.failed = TRUE]
    ELSE IF sym[1] = 256
    THEN IF Len(bits) - (st.at + sym[2] - 1) < 8
         THEN [st EXCEPT !.ended = TRUE]
         ELSE [st EXCEPT !.failed = TRUE]
    ELSE IF sym[1] < 256
    THEN InflateState(st.at + sym[2], Append(st.out, sym[1]), FALSE, FALSE)
    ELSE InflateCopy(trees, bits, st.at + sym[2], st.out, sym[1] - 256)

\* k symbols (by halves)
RECURSIVE InflatePasses(_, _, _, _)
InflatePasses(trees, bits, st, k) ==
    IF k = 0 \/ st.ended \/ st.failed THEN st
    ELSE IF k = 1
    THEN InflateSymbol(trees, bits, st, LiteralSymbol(trees, bits, st.at))
    ELSE Then(InflatePasses(trees, bits, st, k \div 2),
              LAMBDA x : InflatePasses(trees, bits, x, k - k \div 2))

InflateEnd(st) == IF st.ended /\ ~st.failed THEN st.out ELSE NotAStream

InflateFixed(bits) ==
    InflateEnd(InflatePasses(InflateTrees(TRUE, <<>>, <<>>), bits,
                             InflateState(4, <<>>, FALSE, FALSE), Len(bits)))

\* the code lengths of a block with dynamic codes, one symbol of the
\* code-length alphabet more (RFC 1951, 3.2.7): a length, the length before
\* again, or zeros
InflateLength(codes, bits, st, total) ==
    LET sym == TreeSymbol(codes, bits, st.at)
        at == st.at + sym[2]
        again(nb, least, length) ==
            IF at + nb - 1 > Len(bits) THEN [st EXCEPT !.failed = TRUE]
            ELSE [st EXCEPT !.at = at + nb,
                            !.out = @ \o [i \in 1..(least + ExtraValue(bits, at, nb))
                                             |-> length]]
    IN  IF Len(st.out) >= total THEN st
        ELSE IF sym[1] < 0 THEN [st EXCEPT !.failed = TRUE]
        ELSE IF sym[1] <= 15
        THEN [st EXCEPT !.at = at, !.out = Append(@, sym[1])]
        ELSE IF sym[1] = 16
        THEN (IF st.out = <<>> THEN [st EXCEPT !.failed = TRUE]
              ELSE again(2, 3, st.out[Len(st.out)]))
        ELSE IF sym[1] = 17 THEN again(3, 3, 0)
        ELSE again(7, 11, 0)

RECURSIVE InflateLengths(_, _, _, _, _)
InflateLengths(codes, bits, st, total, k) ==
    IF k = 0 \/ st.failed THEN st
    ELSE IF k = 1 THEN InflateLength(codes, bits, st, total)
    ELSE Then(InflateLengths(codes, bits, st, total, k \div 2),
              LAMBDA x : InflateLengths(codes, bits, x, total, k - k \div 2))

\* a block with dynamic codes: the numbers of codes, the lengths of the codes
\* of the code lengths in the order bl_order, the code lengths of the two
\* codes, and the symbols
InflateDynamic(bits) ==
    IF Len(bits) < 17 THEN NotAStream
    ELSE LET hlit == ExtraValue(bits, 4, 5) + 257
             hdist == ExtraValue(bits, 9, 5) + 1
             hclen == ExtraValue(bits, 14, 4) + 4
             bl == [n \in 1..19 |->
                       IF \E r \in 1..hclen : bl_order[r] = n - 1
                       THEN ExtraValue(bits, 18 + 3 * ((CHOOSE r \in 1..hclen :
                                           bl_order[r] = n - 1) - 1), 3)
                       ELSE 0] \o <<>>
         IN  IF Len(bits) < 17 + 3 * hclen THEN NotAStream
             ELSE Then(InflateLengths(CanonicalCodes(bl), bits,
                                      InflateState(18 + 3 * hclen, <<>>,
                                                   FALSE, FALSE),
                                      hlit + hdist, hlit + hdist),
                  LAMBDA lengths :
                      IF lengths.failed \/ Len(lengths.out) # hlit + hdist
                      THEN NotAStream
                      ELSE Then(InflateTrees(
                                    FALSE,
                                    CanonicalCodes(SubSeq(lengths.out, 1, hlit)),
                                    CanonicalCodes(SubSeq(lengths.out, hlit + 1,
                                                          hlit + hdist))),
                           LAMBDA trees :
                               InflateEnd(InflatePasses(
                                   trees, bits,
                                   InflateState(lengths.at, <<>>, FALSE, FALSE),
                                   Len(bits)))))

\* a decoder of raw deflate streams of one final block: stored, with the
\* fixed codes or with dynamic codes
Inflate(b) ==
    IF Len(b) = 0 THEN NotAStream
    ELSE IF b[1] % 8 = 1
    THEN IF /\ Len(b) >= 5
            /\ b[2] + 256 * b[3] = Len(b) - 5
            /\ b[4] + 256 * b[5] = 65535 - (Len(b) - 5)
         THEN SubSeq(b, 6, Len(b)) ELSE NotAStream
    ELSE IF b[1] % 8 = 3 THEN InflateFixed(BytesToBits(b))
    ELSE IF b[1] % 8 = 5 THEN InflateDynamic(BytesToBits(b) \o <<>>)
    ELSE NotAStream

\* a gzip client: the member header (deflate, no flags), the deflate stream,
\* and the trailer, which has to be the CRC-32 and the length of the data
GunzipData(b, data) ==
    IF /\ data # NotAStream
       /\ SubSeq(b, Len(b) - 7, Len(b))
              = Crc32Bytes(data) \o LE4(Len(data))
    THEN data ELSE NotAStream

Gunzip(b) ==
    IF Len(b) < 18 \/ SubSeq(b, 1, 4) # <<31, 139, 8, 0>> THEN NotAStream
    ELSE GunzipData(b, Inflate(SubSeq(b, 11, Len(b) - 8)))

\* a brotli client for meta-blocks that hold their bytes as they are: the
\* stream header with the first meta-block header, the bytes, the next
\* headers, up to the empty last meta-block
RECURSIVE BrotliDecode(_, _, _)
BrotliDecode(b, at, out) ==
    IF at > Len(b) THEN NotAStream
    ELSE IF at = 1 /\ b = <<59>> THEN <<>>
    ELSE IF at > 1 /\ at = Len(b) /\ b[at] = 3 THEN out
    ELSE IF at + 2 > Len(b) THEN NotAStream
    ELSE IF at = 1
    THEN IF b[1] % 128 = 11 /\ b[3] >= 128
         THEN LET len == b[1] \div 128 + 2 * b[2] + 512 * (b[3] - 128) + 1
              IN  IF at + 2 + len > Len(b) THEN NotAStream
                  ELSE BrotliDecode(b, at + 3 + len,
                                    out \o SubSeq(b, at + 3, at + 2 + len))
         ELSE NotAStream
    ELSE IF b[at] % 8 = 0 /\ b[at + 2] \div 8 = 1
    THEN LET len == b[at] \div 8 + 32 * b[at + 1]
                        + 8192 * (b[at + 2] % 8) + 1
         IN  IF at + 2 + len > Len(b) THEN NotAStream
             ELSE BrotliDecode(b, at + 3 + len,
                               out \o SubSeq(b, at + 3, at + 2 + len))
    ELSE NotAStream

\* what a client that decodes the Content-Encoding makes of the body
\* a brotli client: of the coded meta-blocks it knows those of BrotliCodedAs,
\* which end the stream or begin it
Unbrotli(b) ==
    IF \E e \in BrotliCodedAs : e[1] > 1 /\ e[3] = b
    THEN (CHOOSE e \in BrotliCodedAs : e[1] > 1 /\ e[3] = b)[2]
    ELSE IF \E e \in BrotliCodedAs : e[1] = 1 /\ IsPrefix(e[3], b)
    THEN LET e == CHOOSE e \in BrotliCodedAs : e[1] = 1 /\ IsPrefix(e[3], b)
         IN  BrotliDecode(b, Len(e[3]) + 1, e[2])
    ELSE BrotliDecode(b, 1, <<>>)

Decompress(name, b) == IF name = v_gzip THEN Gunzip(b) ELSE Unbrotli(b)

\* the bodies of messages lo..hi of sent, one after the other
RECURSIVE ConcatBodies(_, _)
ConcatBodies(lo, hi) ==
    IF lo > hi THEN <<>> ELSE sent[lo].body \o ConcatBodies(lo + 1, hi)

\* the number of source chunks the codec has been fed
ChunksFed ==
    IF pc = "compress" THEN sender.next - 1
    ELSE IF pc = "compress_body" THEN sender.next
    ELSE Len(response._content.chunks)

\* the codec has been fed the first chunks of the source in order; every body
\* message sent is that of one chunk, in order and with the chunk's more_body;
\* at the end there is one body message per chunk and the bodies together are
\* a complete stream of the codec, which a client decodes to the bytes of the
\* source
CompressedChunkByChunk ==
    LET chunks == response._content.chunks
    IN  /\ sender.consumed \o sender.pending
               = ConcatChunks(SubSeq(chunks, 1, ChunksFed))
        /\ Len(sent) >= 1 =>
               /\ Len(sent) - 1 <= Len(chunks)
               /\ \A i \in 2..Len(sent) :
                      /\ sent[i].type = "http.response.body"
                      /\ sent[i].more_body = chunks[i - 1][2]
        /\ pc = "done" =>
               /\ Len(sent) = 1 + Len(chunks)
               /\ Decompress(sender.name, ConcatBodies(2, Len(sent)))
                      = ConcatChunks(chunks)

\* C24: in a compressed send the codec is fed the source chunks in order and
\* finished on the chunk whose more_body is false; one body message is sent
\* per chunk, in order, with the chunk's more_body and the output produced
\* since the message before, so that the bodies of all the messages are the
\* complete compressed stream of the source.
C24_CompressedStream == Compressing => CompressedChunkByChunk

\* the same for the sources that have a chunk
C24_WithChunks ==
    (Compressing /\ Len(response._content.chunks) >= 1)
        => CompressedChunkByChunk

\* a compressed send of a source of two chunks has come to its end
C24_TwoChunksDone ==
    /\ Compressing /\ pc = "done"
    /\ Len(response._content.chunks) = 2
    /\ Len(sent) = 3

\* the cache maps each user agent in it, once, to the rule
\* get_rule_by_client_user_agent returns for it, which is not None; every call
\* that has returned has answered what a call without a cache answers
CacheCoherent ==
    hide.enable =>
        /\ Cardinality(DictKeys(hide._ua_to_rule_mapping)) =
               Len(hide._ua_to_rule_mapping)
        /\ \A ua \in DictKeys(hide._ua_to_rule_mapping) :
               /\ DictGet(hide._ua_to_rule_mapping, ua) =
                      get_rule_by_client_user_agent(hide, ua)
               /\ DictGet(hide._ua_to_rule_mapping, ua) # None
        /\ \A t \in Returned :
               tasks[t].result = HiddenFor(tasks[t].ua, tasks[t].file_name)

\* an entry of the cache stays, with its rule
EntriesKept ==
    hide.enable =>
    \A ua \in DictKeys(hide._ua_to_rule_mapping) :
        /\ DictHas(hide'._ua_to_rule_mapping, ua)
        /\ DictGet(hide'._ua_to_rule_mapping, ua) =
               DictGet(hide._ua_to_rule_mapping, ua)

\* C25: however concurrent calls of is_match_hide_file_in_dir interleave, every
\* entry of the cache maps a user agent to what get_rule_by_client_user_agent
\* returns for it, an entry once written is never changed or removed, an absent
\* rule is never cached, and each call returns what it would return without a
\* cache.
C25_CacheCoherent == []CacheCoherent /\ [][EntriesKept]_vars

\* two calls with the same user agent, unseen before them, have returned, and
\* the cache holds the rule of that user agent
C25_Witness ==
    /\ hide.enable
    /\ NumTasks >= 2
    /\ tasks[1].pc = "returned" /\ tasks[2].pc = "returned"
    /\ tasks[1].ua = tasks[2].ua
    /\ tasks[1].result = TRUE
    /\ DictKeys(hide._ua_to_rule_mapping) = {tasks[1].ua}

\* the calls that are inside the "async with" block
Holders ==
    {t \in DOMAIN tasks :
        tasks[t].pc \in {"locked", "update", "release", "return_false"}}

\* at most one call is inside the block, and the lock is locked exactly while
\* one is: a call that has left the block, by its end or by "return False", has
\* released the lock
LockHeldByOne ==
    hide.enable =>
        /\ Cardinality(Holders) <= 1
        /\ hide._ua_to_rule_mapping_lock.locked <=> (Holders # {})

\* C26: the lock of the cache is held by at most one call at a time and is
\* released on every way out of the block, the early return when no rule
\* resolves included; under fair scheduling every call that has been made
\* returns.
C26_LockAndProgress ==
    /\ []LockHeldByOne
    /\ \A t \in 1..NumTasks :
           (tasks[t].pc = "called") ~> (tasks[t].pc = "returned")

\* a call for which no rule resolved has returned, and the lock it released is
\* held by the next call
C26_Witness ==
    /\ hide.enable
    /\ NumTasks >= 2
    /\ tasks[1].pc = "returned" /\ tasks[1].rule = None
    /\ tasks[2].pc = "locked"
    /\ hide._ua_to_rule_mapping_lock.locked

\* C27: a response whose content is a zero-copy file is never handed to the
\* gzip or brotli sender, whatever its Content-Type and length and whatever
\* the client accepts and the configuration enables: send_in_one_call does not
\* raise and ends with the start message followed by the body of the file.
C27_ZeroCopyNeverCompressed ==
    (Sending /\ response._content.kind = "zerocopy") =>
        /\ sender.name = <<>>
        /\ pc # "send_raised"
        /\ pc = "done" =>
               /\ Len(sent) >= 2
               /\ IsStart(sent[1])
               /\ \A i \in 2..Len(sent) : IsBodyMessage(sent[i])

\* the request at hand has a Basic credential and pick_out_user has accepted it
BasicAccepted ==
    /\ DictHas(request.headers, h_authorization)
    /\ HTTPBasicAuth_is_credential(DictGet(request.headers, h_authorization))
    /\ ~auth.raised
    /\ auth.user # NoUser

\* C28: whatever DAVAuth objects were built before in the process, the one
\* built last accepts a Basic credential only when it is
\* base64(username:password) of an account of its own configuration, and the
\* user it accepts has the password the user map, which Digest reads, holds
\* for that username: no account or password of an earlier configuration is
\* accepted.
C28_OwnConfigurationOnly ==
    BasicAccepted =>
        /\ \E i \in 1..Len(config.account_mapping) :
               Drop(DictGet(request.headers, h_authorization), 6) =
                   b64encode(Utf8Encode(config.account_mapping[i].username
                                        \o <<58>>
                                        \o config.account_mapping[i].password))
        /\ DictGet(user_mapping, auth.user.username) = auth.user

====
